---- MODULE Spec2Model ----
(***************************************************************************)
(* Double-Layer HotStuff simulator (backend/): the session driver of       *)
(* socket_handlers.py, the safety predicates of consensus_engine.py and    *)
(* the topology resolver of topology_manager.py, as a state machine.       *)
(*                                                                         *)
(* The session is one Python dict mutated by coroutines of one asyncio     *)
(* loop.  A coroutine runs without interruption up to an `await` that      *)
(* suspends: every asyncio.sleep, and the room-wide sio.emit of a QC.      *)
(* Each stretch between two suspension points is one action.  The handlers *)
(* are written as operators from session record to session record, so     *)
(* that nested calls (handle_vote feeding a GroupVote back into itself,    *)
(* the robot loops, the buffer replay) compose as they do in the code.     *)
(***************************************************************************)
EXTENDS Integers, Sequences, FiniteSets, TLC

VARIABLES
    config,               \* session["config"]
    status,               \* session["status"]
    phase,                \* session["phase"]
    phase_step,           \* session["phase_step"]
    current_view,         \* session["current_view"]
    current_round,        \* session["current_round"]
    start_view_of_round,  \* session["start_view_of_round"]
    leader_id,            \* session["leader_id"]
    robot_nodes,          \* session["robot_nodes"] (a list)
    robot_node_states,    \* session["robot_node_states"]
    node_states,          \* session["node_states"]
    messages,             \* session["messages"]: the four logs
    pending_group_votes,  \* session["pending_group_votes"]
    pending_votes,        \* session["pending_votes"]
    pending_new_views,    \* session["pending_new_views"]
    message_buffer,       \* session["message_buffer"]
    total_messages_sent,  \* session["network_stats"]["total_messages_sent"]
    consensus_finalized_view, \* session["consensus_finalized_view"]
    last_pre_prepare_view,    \* session["last_pre_prepare_view"]
    consensus_history,    \* session["consensus_history"]
    consensus_result,     \* session["consensus_result"]
    timeout_task,         \* session["timeout_task"]: the view of the armed timer
    connected_nodes,      \* state.connected_nodes[session_id]
    room,                 \* a client has entered the session's socket room
    tasks,                \* the event loop: sleeping and suspended coroutines
    inbound,              \* number of inbound client messages handled so far
    replayed,             \* history: the votes the buffer replay handed to handle_vote
    db,                   \* the SQLite file: the sessions and history tables
    gate,                 \* message_received emits the delivery gate passed and dropped
    vote_probe,           \* history: the view of the last vote given to handle_vote directly
    sn_probe              \* last SafeNode evaluation: the proposal and the answer

vars == <<config, status, phase, phase_step, current_view, current_round,
          start_view_of_round, leader_id, robot_nodes, robot_node_states,
          node_states, messages, pending_group_votes, pending_votes,
          pending_new_views, message_buffer, total_messages_sent,
          consensus_finalized_view, last_pre_prepare_view, consensus_history,
          consensus_result, timeout_task, connected_nodes, room, tasks,
          inbound, replayed, db, gate, vote_probe, sn_probe>>

----------------------------------------------------------------------------
(* Bounds of the model. *)

\* Views run from 0 to MaxView: no timer fires and no round starts beyond it.
MaxView == 1

\* At most this many inbound client messages (votes, connects) per behaviour.
MaxInbound == 3

\* Views of the seeded lockedQC and of the proposals in the SafeNode check.
MaxSafeView == 6

\* random.random() draws available to one run of a handler; a run that
\* consults the gate more often meets them again in the same order.
MaxDraws == 2

\* Python's None for an integer field, and the default of dict.get("view", -1).
None == -1

\* The two proposal values in play: config.proposalValue and a conflicting one.
Values == {7, 9}

VotePhases == {"prepare", "pre-commit", "commit"}

\* random.random() * 100, line 56: a draw below every rate above 0 and a
\* draw above every rate below 100.
DrawValues == {0, 99}

----------------------------------------------------------------------------
(* consensus_engine.py *)

get_quorum_threshold(cfg) == 2 * ((cfg.nodeCount - 1) \div 3) + 1

get_local_quorum_threshold(group_size) == 2 * ((group_size - 1) \div 3) + 1

\* get_next_phase with pre-commit left out.
get_next_phase_skipping(ph) ==
    CASE ph = "new-view"   -> "prepare"
      [] ph = "prepare"    -> "commit"
      [] ph = "pre-commit" -> "commit"
      [] ph = "commit"     -> "decide"
      [] OTHER             -> "prepare"

get_next_phase(ph) ==
    CASE ph = "new-view"   -> "prepare"
      [] ph = "prepare"    -> "pre-commit"
      [] ph = "pre-commit" -> "commit"
      [] ph = "commit"     -> "decide"
      [] ph = "decide"     -> "decide"
      [] OTHER             -> "prepare"

\* A QC is a record; NoQC stands for None.
NoQC == [phase |-> "none", view |-> None, value |-> None, signers |-> {},
         total_weight |-> 0]

\* qc_extends with "at least as high" in place of "strictly higher".
qc_extends_same_view(qc1, qc2) ==
    IF qc2 = NoQC THEN TRUE
    ELSE IF qc1 = NoQC THEN FALSE
    ELSE qc1.view >= qc2.view /\ qc1.value = qc2.value

qc_extends(qc1, qc2) ==
    IF qc2 = NoQC THEN TRUE
    ELSE IF qc1 = NoQC THEN FALSE
    ELSE qc1.view > qc2.view /\ qc1.value = qc2.value

\* SafeNode whose last clause looks at the view alone.
SafeNode_any_value(lockedQC, proposal_view, proposal_value, proposal_qc) ==
    IF lockedQC = NoQC THEN TRUE
    ELSE IF proposal_view > lockedQC.view THEN TRUE
    ELSE IF proposal_qc # NoQC THEN qc_extends(proposal_qc, lockedQC)
    ELSE proposal_view >= lockedQC.view

\* check_safe_node on the node's lockedQC.
SafeNode(lockedQC, proposal_view, proposal_value, proposal_qc) ==
    IF lockedQC = NoQC THEN TRUE
    ELSE IF proposal_view > lockedQC.view THEN TRUE
    ELSE IF proposal_qc # NoQC THEN qc_extends(proposal_qc, lockedQC)
    ELSE IF proposal_value = lockedQC.value /\ proposal_view >= lockedQC.view
         THEN TRUE
    ELSE FALSE

check_safe_node(s, node_id, proposal_view, proposal_value, proposal_qc) ==
    SafeNode(s.node_states[node_id].lockedQC, proposal_view, proposal_value,
             proposal_qc)

update_node_locked_qc(s, node_id, qc) ==
    LET current_locked == s.node_states[node_id].lockedQC IN
    IF current_locked = NoQC \/ qc.view > current_locked.view
    THEN [s EXCEPT !.node_states[node_id].lockedQC = qc]
    ELSE s

\* update_node_prepare_qc that takes a QC of any view.
update_node_prepare_qc_any_view(s, node_id, qc) ==
    [s EXCEPT !.node_states[node_id].prepareQC = qc,
              !.node_states[node_id].highQC = qc]

update_node_prepare_qc(s, node_id, qc) ==
    LET current_prepare == s.node_states[node_id].prepareQC IN
    IF current_prepare = NoQC \/ qc.view > current_prepare.view
    THEN [s EXCEPT !.node_states[node_id].prepareQC = qc,
                   !.node_states[node_id].highQC = qc]
    ELSE s

----------------------------------------------------------------------------
(* topology_manager.py *)

\* get_current_leader without the wrap at nodeCount.
get_current_leader_unwrapped(cfg, view) == view

get_current_leader(cfg, view) == view % cfg.nodeCount

Max(a, b) == IF a > b THEN a ELSE b
Min(a, b) == IF a < b THEN a ELSE b

get_topology_info(cfg, node_id, view) ==
    LET n == cfg.nodeCount
        branch_count == Max(1, cfg.branchCount)
        global_leader_id == view % n
        group_size == Max(1, n \div branch_count)
        group_id == node_id \div group_size
        group_start_id == group_id * group_size
        group_end_id == Min((group_id + 1) * group_size, n)
        actual_group_size == Max(0, group_end_id - group_start_id)
    IN  IF node_id = global_leader_id
        THEN [role |-> "root", parent_id |-> None, group_id |-> None,
              group_size |-> None]
        ELSE IF node_id = group_start_id /\ node_id # global_leader_id
        THEN [role |-> "group_leader", parent_id |-> global_leader_id,
              group_id |-> group_id, group_size |-> actual_group_size]
        ELSE [role |-> "member", parent_id |-> group_start_id,
              group_id |-> group_id, group_size |-> actual_group_size]

----------------------------------------------------------------------------
(* Messages.  Every kind has a fixed record shape; absent fields of the     *)
(* Python dicts carry the defaults the code reads with dict.get.           *)

VoteMsg(from, to, value, ph, view, round) ==
    [from |-> from, to |-> to, value |-> value, phase |-> ph, view |-> view,
     round |-> round, is_group_vote |-> FALSE, weight |-> 1,
     group_voters |-> {}]

GroupVoteMsg(from, to, value, ph, view, round, voters) ==
    [from |-> from, to |-> to, value |-> value, phase |-> ph, view |-> view,
     round |-> round, is_group_vote |-> TRUE, weight |-> Cardinality(voters),
     group_voters |-> voters]

QcMsg(from, ph, next_phase, view, round, qc) ==
    [from |-> from, phase |-> ph, next_phase |-> next_phase, view |-> view,
     round |-> round, qc |-> qc]

NoQcMsg == QcMsg(None, "none", "none", None, None, NoQC)

PrePrepareMsg(from, value, view, round, qc) ==
    [from |-> from, value |-> value, view |-> view, round |-> round,
     qc |-> qc]

NoProposal == PrePrepareMsg(None, None, None, None, NoQC)

NewViewMsg(from, to, view, old_view, round, highQC) ==
    [from |-> from, to |-> to, view |-> view, old_view |-> old_view,
     round |-> round, highQC |-> highQC]

\* An element of the event loop: a coroutine asleep in asyncio.sleep or
\* suspended in an emit, with the locals it resumes with.
Task(kind, view, ph, value, leader, qcm, robots, votes, proposal, ctx, robot) ==
    [kind |-> kind, view |-> view, phase |-> ph, value |-> value,
     leader |-> leader, qcm |-> qcm, robots |-> robots, votes |-> votes,
     proposal |-> proposal, ctx |-> ctx, robot |-> robot]

SleepTask(kind, view) ==
    Task(kind, view, "none", None, None, NoQcMsg, <<>>, <<>>, NoProposal,
         "tail", None)

\* What is left to do, after handle_vote returns, in the coroutine that
\* called it: nothing ("tail"), the rest of a robot loop, or the rest of the
\* buffer replay.
Cont(kind, view, ph, value, leader, robots, votes, proposal, robot) ==
    [kind |-> kind, view |-> view, phase |-> ph, value |-> value,
     leader |-> leader, robots |-> robots, votes |-> votes,
     proposal |-> proposal, robot |-> robot]

TailCont == Cont("tail", None, "none", None, None, <<>>, <<>>, NoProposal, None)

\* The session as one record, with fields that live only inside an
\* action: susp (the QC message at whose emit the coroutine suspended),
\* cont (what its caller still has to do), exc (an exception propagating)
\* and rnd (the values random.random() returns to this run, in order).
S == [config |-> config, status |-> status, phase |-> phase,
      phase_step |-> phase_step, current_view |-> current_view,
      current_round |-> current_round,
      start_view_of_round |-> start_view_of_round, leader_id |-> leader_id,
      robot_nodes |-> robot_nodes, robot_node_states |-> robot_node_states,
      node_states |-> node_states, messages |-> messages,
      pending_group_votes |-> pending_group_votes,
      pending_votes |-> pending_votes,
      pending_new_views |-> pending_new_views,
      message_buffer |-> message_buffer,
      total_messages_sent |-> total_messages_sent,
      consensus_finalized_view |-> consensus_finalized_view,
      last_pre_prepare_view |-> last_pre_prepare_view,
      consensus_history |-> consensus_history,
      consensus_result |-> consensus_result, timeout_task |-> timeout_task,
      connected_nodes |-> connected_nodes, room |-> room, tasks |-> tasks,
      replayed |-> replayed, db |-> db, gate |-> gate,
      susp |-> NoQcMsg, cont |-> TailCont, exc |-> FALSE, slept |-> FALSE,
      rnd |-> <<>>]

\* count_message_sent(session_id, is_broadcast=False, target_count=k)
count_message_sent(s, k) ==
    [s EXCEPT !.total_messages_sent = @ + Max(k, 0)]

\* The group leaders a hierarchical broadcast of `leader` is sent to.
group_leaders(cfg, leader) ==
    LET n == cfg.nodeCount
        group_size == Max(1, n \div cfg.branchCount)
    IN  {gid * group_size : gid \in
            {g \in 0..(cfg.branchCount - 1) :
                g * group_size < n /\ g * group_size # leader}}

\* Members the group leader gl forwards to: range(group_start+1, group_end).
target_member_count(cfg, gl, view) ==
    LET n == cfg.nodeCount
        group_size == Max(1, n \div cfg.branchCount)
        group_id == get_topology_info(cfg, gl, view).group_id
        group_start_id == group_id * group_size
        group_end_id == Min((group_id + 1) * group_size, n)
    IN  Max(group_end_id - (group_start_id + 1), 0)

RECURSIVE SumOver(_, _, _, _)
SumOver(cfg, gls, view, acc) ==
    IF gls = {} THEN acc
    ELSE LET g == CHOOSE x \in gls : TRUE
         IN SumOver(cfg, gls \ {g}, view,
                    acc + target_member_count(cfg, g, view))

\* The two counting steps of the hierarchical broadcast (PRE-PREPARE and QC).
count_hierarchical_broadcast(s, leader, view) ==
    LET gls == group_leaders(s.config, leader)
    IN  count_message_sent(count_message_sent(s, Cardinality(gls)),
                           SumOver(s.config, gls, view, 0))

\* The node id a client supplies in its events: node 3, a member of the
\* group of node 2 in views 0 and 1.
ClientNodes == {3}

\* node_sockets[session_id]: the nodes a client socket has connected as.
node_sockets(s) == IF s.room THEN ClientNodes ELSE {}

\* should_deliver_message, lines 45-56, on the next draw of the run.
should_deliver_message(s) ==
    IF s.config.messageDeliveryRate >= 100 THEN TRUE
    ELSE Head(s.rnd) < s.config.messageDeliveryRate

\* A gated emit whose drop is taken back from the message counter.
emit_gated_uncounted(s, target_id) ==
    IF target_id \notin node_sockets(s) THEN s
    ELSE IF s.config.messageDeliveryRate >= 100
    THEN [s EXCEPT !.gate.delivered = @ + 1]
    ELSE IF should_deliver_message(s)
    THEN [s EXCEPT !.gate.delivered = @ + 1,
                   !.rnd = Append(Tail(@), Head(@))]
    ELSE [s EXCEPT !.gate.dropped = @ + 1,
                   !.total_messages_sent = @ - 1,
                   !.rnd = Append(Tail(@), Head(@))]

\* if target_sid: if should_deliver_message(...): await sio.emit(
\* 'message_received', ..., room=target_sid); else the drop is printed.
emit_gated(s, target_id) ==
    IF target_id \notin node_sockets(s) THEN s
    ELSE IF s.config.messageDeliveryRate >= 100
    THEN [s EXCEPT !.gate.delivered = @ + 1]
    ELSE IF should_deliver_message(s)
    THEN [s EXCEPT !.gate.delivered = @ + 1,
                   !.rnd = Append(Tail(@), Head(@))]
    ELSE [s EXCEPT !.gate.dropped = @ + 1,
                   !.rnd = Append(Tail(@), Head(@))]

RECURSIVE emit_each(_, _)
emit_each(s, targets) ==
    IF targets = <<>> THEN s
    ELSE emit_each(emit_gated(s, Head(targets)), Tail(targets))

\* The members behind group leader gl, by node id.
group_members(cfg, gl, view) ==
    LET n == cfg.nodeCount
        group_size == Max(1, n \div cfg.branchCount)
        group_id == get_topology_info(cfg, gl, view).group_id
        group_start_id == group_id * group_size
        group_end_id == Min((group_id + 1) * group_size, n)
    IN  [i \in 1..Max(group_end_id - (group_start_id + 1), 0) |->
            group_start_id + i]

RECURSIVE forwards(_, _, _)
forwards(cfg, gls, view) ==
    IF gls = <<>> THEN <<>>
    ELSE group_members(cfg, Head(gls), view)
            \o forwards(cfg, Tail(gls), view)

\* The targets of a hierarchical broadcast in the order of its emits: the
\* group leaders by group id, then the members of each group by node id.
broadcast_targets(cfg, leader, view) ==
    LET group_size == Max(1, cfg.nodeCount \div cfg.branchCount)
        targeted == group_leaders(cfg, leader)
        starts == {(i - 1) * group_size : i \in 1..cfg.branchCount}
                    \cap targeted
        gl_seq == [i \in 1..Cardinality(starts) |->
                    CHOOSE x \in starts :
                        Cardinality({z \in starts : z < x}) = i - 1]
    IN  gl_seq \o forwards(cfg, gl_seq, view)

\* The hierarchical broadcast of a PRE-PREPARE (lines 1759-1806) or of a QC
\* (lines 892-938): the targets are counted whether or not they are
\* online, and each online target's emit goes through the gate.
hierarchical_broadcast(s, leader, view) ==
    emit_each(count_hierarchical_broadcast(s, leader, view),
              broadcast_targets(s.config, leader, view))

----------------------------------------------------------------------------
(* database.py: the persisted snapshot of the session and its history *)

\* The session_id create_session gives the session.
SessionId == "s1"

\* json.dumps of a dict with integer keys, read back by json.loads: the
\* keys come back as strings.
StrKeys(d) ==
    [k \in {ToString(i) : i \in DOMAIN d} |->
        d[CHOOSE i \in DOMAIN d : ToString(i) = k]]

\* init_db on an empty file.
EmptyDb == [sessions |-> <<>>, history |-> <<>>]

\* _sanitize_session_data followed by json.dumps, lines 53-78 and 96: the
\* timeout task is popped, a field json.dumps raises TypeError on (the
\* pools, dicts with tuple keys, once they have an entry) is left out, and
\* integer keys are written as strings.
sanitize_session_data(s) ==
    LET kept == [config |-> s.config,
                 status |-> s.status,
                 phase |-> s.phase,
                 phase_step |-> s.phase_step,
                 current_view |-> s.current_view,
                 current_round |-> s.current_round,
                 start_view_of_round |-> s.start_view_of_round,
                 leader_id |-> s.leader_id,
                 connected_nodes |-> <<>>,
                 robot_nodes |-> s.robot_nodes,
                 robot_node_states |-> StrKeys(s.robot_node_states),
                 node_states |-> StrKeys(s.node_states),
                 messages |-> s.messages,
                 pending_new_views |->
                    StrKeys([v \in DOMAIN s.pending_new_views |->
                                StrKeys(s.pending_new_views[v])]),
                 message_buffer |->
                    StrKeys([k \in DOMAIN s.message_buffer |->
                                [s.message_buffer[k] EXCEPT
                                    !.node = StrKeys(@)]]),
                 total_messages_sent |-> s.total_messages_sent,
                 consensus_finalized_view |-> s.consensus_finalized_view,
                 last_pre_prepare_view |-> s.last_pre_prepare_view,
                 consensus_history |-> s.consensus_history,
                 consensus_result |-> s.consensus_result]
    IN  IF s.pending_votes = <<>>
        THEN kept @@ [pending_votes |-> <<>>]
        ELSE kept

\* upsert_session, lines 81-119: INSERT ... ON CONFLICT DO UPDATE.
upsert_session(d, session_id, s) ==
    [d EXCEPT !.sessions =
        (session_id :> sanitize_session_data(s)) @@ @]

\* append_history, lines 145-177: one row, its id from AUTOINCREMENT.
append_history(d, session_id, history_item) ==
    [d EXCEPT !.history =
        Append(@, [id |-> Len(@) + 1, session_id |-> session_id,
                   round |-> history_item.round, data |-> history_item])]

\* load_all_sessions, lines 122-142: every row of the sessions table.
load_all_sessions(d) == d.sessions

\* load_history, lines 180-206: the rows of the session, ORDER BY id ASC.
load_history(d, session_id) ==
    LET OfSession(row) == row.session_id = session_id
        rows == SelectSeq(d.history, OfSession)
    IN  [i \in 1..Len(rows) |-> rows[i].data]

\* Lines 1320-1325 of finalize_consensus: the history row, then the
\* snapshot.
persist_round(s, history_item) ==
    [s EXCEPT !.db = upsert_session(append_history(@, SessionId,
                                                   history_item),
                                    SessionId, s)]

\* The session dict on_startup puts in `sessions` for a loaded state,
\* main.py lines 60-80, in a process whose event loop and sockets are new.
restore_session(s, state, d, session_id) ==
    LET rewind == state.status = "running"
    IN  [s EXCEPT
            !.config = state.config,
            !.status = IF rewind THEN "waiting" ELSE state.status,
            !.phase = IF rewind THEN "waiting" ELSE state.phase,
            !.phase_step = IF rewind THEN 0 ELSE state.phase_step,
            !.current_view = state.current_view,
            !.current_round = state.current_round,
            !.start_view_of_round = state.start_view_of_round,
            !.leader_id = state.leader_id,
            !.robot_nodes = state.robot_nodes,
            !.robot_node_states = state.robot_node_states,
            !.node_states = state.node_states,
            !.messages = state.messages,
            !.pending_group_votes = <<>>,
            !.pending_votes = <<>>,
            !.pending_new_views = state.pending_new_views,
            !.message_buffer = state.message_buffer,
            !.total_messages_sent = state.total_messages_sent,
            !.consensus_finalized_view = state.consensus_finalized_view,
            !.last_pre_prepare_view = state.last_pre_prepare_view,
            !.consensus_history = load_history(d, session_id),
            !.consensus_result = state.consensus_result,
            !.timeout_task = None,
            !.connected_nodes = state.connected_nodes,
            !.room = FALSE,
            !.tasks = {}]

\* on_startup that restores every session with the status it was saved with.
on_startup_as_persisted(s) ==
    LET persisted_sessions == load_all_sessions(s.db)
        state == persisted_sessions[SessionId]
    IN  IF SessionId \notin DOMAIN persisted_sessions THEN s
        ELSE [restore_session(s, state, s.db, SessionId) EXCEPT
                !.status = state.status,
                !.phase = state.phase,
                !.phase_step = state.phase_step]

\* on_startup, main.py lines 51-83, in the process that replaces the one
\* the session s lived in.
on_startup(s) ==
    LET persisted_sessions == load_all_sessions(s.db)
    IN  IF SessionId \notin DOMAIN persisted_sessions THEN s
        ELSE restore_session(s, persisted_sessions[SessionId], s.db,
                             SessionId)

----------------------------------------------------------------------------
(* handle_qc_message, looped over every node by handle_vote *)

\* handle_qc_message locking on a QC of any phase.
handle_qc_message_any_phase(s, qc_msg, node_id) ==
    update_node_locked_qc(update_node_prepare_qc(s, node_id, qc_msg.qc),
                          node_id, qc_msg.qc)

\* handle_qc_message that looks at commit QCs only, and only to lock.
handle_qc_message_commit_only(s, qc_msg, node_id) ==
    IF qc_msg.qc.phase = "commit"
    THEN update_node_locked_qc(s, node_id, qc_msg.qc)
    ELSE s

handle_qc_message(s, qc_msg, node_id) ==
    LET qc == qc_msg.qc
        s1 == update_node_prepare_qc(s, node_id, qc)
    IN  IF qc.phase = "commit" THEN update_node_locked_qc(s1, node_id, qc)
        ELSE s1

\* The loop of lines 953-955 cut short after its first node.
apply_qc_to_first_node(s, qc_msg, node_id) ==
    handle_qc_message(s, qc_msg, node_id)

RECURSIVE apply_qc_to_nodes(_, _, _)
apply_qc_to_nodes(s, qc_msg, node_id) ==
    IF node_id >= s.config.nodeCount THEN s
    ELSE apply_qc_to_nodes(handle_qc_message(s, qc_msg, node_id), qc_msg,
                           node_id + 1)

----------------------------------------------------------------------------
(* finalize_consensus *)

HistoryItem(round, view, st, actual_messages) ==
    [round |-> round, view |-> view, status |-> st,
     actual_messages |-> actual_messages]

\* finalize_consensus without the test of consensus_finalized_view.
finalize_consensus_unguarded(s, st) ==
    LET history_item == HistoryItem(s.current_round, s.current_view, st,
                                    s.total_messages_sent)
        s1 == [s EXCEPT
                !.consensus_finalized_view = s.current_view,
                \* timeout_task.cancel(): the sleeping timer never wakes
                !.tasks = {t \in @ : ~(t.kind = "handle_consensus_timeout"
                                          /\ t.view = s.timeout_task)},
                !.phase = "completed",
                !.phase_step = 4,
                !.status = "completed",
                !.consensus_result = st,
                !.consensus_history = Append(@, history_item)]
        s2 == persist_round(s1, history_item)
    IN  [s2 EXCEPT !.tasks = @ \cup
                {SleepTask("start_next_round", s.current_view)}]

finalize_consensus(s, st) ==
    LET history_item == HistoryItem(s.current_round, s.current_view, st,
                                    s.total_messages_sent)
        s1 == [s EXCEPT
                !.consensus_finalized_view = s.current_view,
                \* timeout_task.cancel(): the sleeping timer never wakes
                !.tasks = {t \in @ : ~(t.kind = "handle_consensus_timeout"
                                          /\ t.view = s.timeout_task)},
                !.phase = "completed",
                !.phase_step = 4,
                !.status = "completed",
                !.consensus_result = st,
                !.consensus_history = Append(@, history_item)]
        s2 == persist_round(s1, history_item)
    IN  IF s.consensus_finalized_view = s.current_view THEN s
        ELSE [s2 EXCEPT !.tasks = @ \cup
                {SleepTask("start_next_round", s.current_view)}]

----------------------------------------------------------------------------
(* handle_vote *)

\* Lines 953-969: what handle_vote does after the emits of the QC.
handle_vote_after_emit(s, qc_message) ==
    LET s1 == apply_qc_to_nodes(s, qc_message, 0)
    IN  IF qc_message.next_phase = "decide"
        THEN finalize_consensus(s1, "Consensus Success")
        ELSE [s1 EXCEPT !.tasks = @ \cup
                {Task("trigger_robot_votes", qc_message.view,
                      qc_message.next_phase, qc_message.qc.value, None,
                      NoQcMsg, <<>>, <<>>, NoProposal, "tail", None)}]

RECURSIVE UnionVoters(_, _)
UnionVoters(group_votes, i) ==
    IF i > Len(group_votes) THEN {}
    ELSE group_votes[i].group_voters \cup UnionVoters(group_votes, i + 1)

EmptyPool == [total_weight |-> 0, group_votes |-> <<>>]

BufferEntry(kind, votes, node) == [kind |-> kind, votes |-> votes, node |-> node]

\* Buffering that also counts the vote as a sent message.
buffer_vote_counted(s, m) ==
    [s EXCEPT !.total_messages_sent = @ + 1,
              !.message_buffer =
                 (m.view :> BufferEntry("votes",
                    (IF m.view \in DOMAIN @ THEN @[m.view].votes ELSE <<>>)
                        \o <<m>>, <<>>)) @@ @]

\* Lines 723-730: buffer[view].append(vote_message).  The buffer also holds
\* the per-node proposal dicts under the node id: appending to one of those
\* raises AttributeError.
buffer_vote(s, m) ==
    LET buffer == s.message_buffer IN
    IF m.view \notin DOMAIN buffer
    THEN [s EXCEPT !.message_buffer =
            (m.view :> BufferEntry("votes", <<m>>, <<>>)) @@ buffer]
    ELSE IF buffer[m.view].kind = "votes"
    THEN [s EXCEPT !.message_buffer[m.view].votes = Append(@, m)]
    ELSE [s EXCEPT !.exc = TRUE]

\* Lines 815-969, for a vote that passed the target check: tally, phase
\* guard, quorum check, QC.  y: the coroutine suspends at the room-wide emit
\* of the QC (lines 941-948).
global_vote(s, m, y) ==
    LET key == <<m.view, m.phase, m.value>>
        pending == s.pending_votes
        old == IF key \in DOMAIN pending THEN pending[key] ELSE EmptyPool
        contribution ==
            IF m.is_group_vote
            THEN [from |-> m.from, weight |-> m.weight,
                  group_voters |-> m.group_voters]
            ELSE [from |-> m.from, weight |-> 1, group_voters |-> {m.from}]
        new == [total_weight |-> old.total_weight + contribution.weight,
                group_votes |-> Append(old.group_votes, contribution)]
        s1 == [s EXCEPT !.pending_votes = (key :> new) @@ pending]
        global_leader_id == get_current_leader(s.config, m.view)
        threshold == get_quorum_threshold(s.config)
        qc == [phase |-> m.phase, view |-> m.view,
               value |-> m.value,
               signers |-> UnionVoters(new.group_votes, 1),
               total_weight |-> new.total_weight]
        next_phase == get_next_phase(m.phase)
        qc_message == QcMsg(global_leader_id, m.phase, next_phase, m.view,
                            s.current_round, qc)
        s2 == [s1 EXCEPT !.phase = next_phase,
                         !.phase_step = @ + 1,
                         !.messages.qc = Append(@, qc_message)]
        s3 == hierarchical_broadcast(s2, global_leader_id, m.view)
    IN  IF m.phase # s1.phase THEN s1
        ELSE IF new.total_weight < threshold THEN s1
        ELSE IF y THEN [s3 EXCEPT !.susp = qc_message]
        ELSE handle_vote_after_emit(s3, qc_message)

\* handle_vote without the tests of the vote's target.
handle_vote_any_target(s, m, y) ==
    IF m.view > s.current_view THEN buffer_vote(s, m)
    ELSE IF m.view < s.current_view THEN s
    ELSE
    LET voter_info == get_topology_info(s.config, m.from, m.view)
        global_leader_id == get_current_leader(s.config, m.view)
    IN  IF voter_info.role = "member"
        THEN LET group_leader_id == voter_info.parent_id
                 key == <<m.view, m.phase, m.value, group_leader_id>>
                 pgv == s.pending_group_votes
                 group_voters ==
                    (IF key \in DOMAIN pgv THEN pgv[key] ELSE {}) \cup {m.from}
                 s1 == [s EXCEPT !.pending_group_votes =
                                    (key :> group_voters) @@ pgv]
                 group_vote_message ==
                    GroupVoteMsg(group_leader_id, global_leader_id, m.value,
                                 m.phase, m.view, s.current_round,
                                 group_voters)
                 s2 == [s1 EXCEPT !.messages.vote =
                                    Append(@, group_vote_message)]
             IN  IF Cardinality(group_voters)
                        < get_local_quorum_threshold(voter_info.group_size)
                 THEN s1
                 ELSE global_vote(emit_gated(s2, global_leader_id),
                                  group_vote_message, y)
        ELSE global_vote(s, m, y)

RECURSIVE handle_vote(_, _, _)
handle_vote(s, m, y) ==
    IF m.view > s.current_view THEN buffer_vote(s, m)
    ELSE IF m.view < s.current_view THEN s
    ELSE
    LET voter_info == get_topology_info(s.config, m.from, m.view)
        global_leader_id == get_current_leader(s.config, m.view)
    IN  IF voter_info.role = "member"
        THEN LET group_leader_id == voter_info.parent_id
                 key == <<m.view, m.phase, m.value, group_leader_id>>
                 pgv == s.pending_group_votes
                 group_voters ==
                    (IF key \in DOMAIN pgv THEN pgv[key] ELSE {}) \cup {m.from}
                 s1 == [s EXCEPT !.pending_group_votes =
                                    (key :> group_voters) @@ pgv]
                 local_threshold ==
                    get_local_quorum_threshold(voter_info.group_size)
                 group_vote_message ==
                    GroupVoteMsg(group_leader_id, global_leader_id, m.value,
                                 m.phase, m.view, s.current_round,
                                 group_voters)
                 s2 == [s1 EXCEPT !.messages.vote =
                                    Append(@, group_vote_message)]
             IN  IF m.to # group_leader_id THEN s
                 ELSE IF Cardinality(group_voters) < local_threshold THEN s1
                 ELSE handle_vote(emit_gated(s2, global_leader_id),
                                  group_vote_message, y)
        ELSE IF m.to # global_leader_id THEN s
        ELSE global_vote(s, m, y)

----------------------------------------------------------------------------
(* consensus_service.py: ConsensusService, the vote path without the network *)

\* ConsensusService._process_global_vote, lines 213-374: target check by
\* the caller's role, tally, quorum check, QC.  It reads session.phase
\* nowhere, applies the QC to no node and starts nothing.
service_process_global_vote(s, m, voter_role) ==
    LET global_leader_id == get_current_leader(s.config, m.view)
        key == <<m.view, m.phase, m.value>>
        pending == s.pending_votes
        old == IF key \in DOMAIN pending THEN pending[key] ELSE EmptyPool
        contribution ==
            IF m.is_group_vote
            THEN [from |-> m.from, weight |-> m.weight,
                  group_voters |-> m.group_voters]
            ELSE [from |-> m.from, weight |-> 1, group_voters |-> {m.from}]
        new == [total_weight |-> old.total_weight + contribution.weight,
                group_votes |-> Append(old.group_votes, contribution)]
        s1 == [s EXCEPT !.pending_votes = (key :> new) @@ pending]
        threshold == get_quorum_threshold(s.config)
        qc == [phase |-> m.phase, view |-> m.view,
               value |-> m.value,
               signers |-> UnionVoters(new.group_votes, 1),
               total_weight |-> new.total_weight]
        next_phase == get_next_phase(m.phase)
        qc_message == QcMsg(global_leader_id, m.phase, next_phase, m.view,
                            s.current_round, qc)
    IN  IF voter_role \notin {"group_leader", "root"} THEN s
        ELSE IF m.to # global_leader_id THEN s
        ELSE IF new.total_weight < threshold THEN s1
        ELSE [s1 EXCEPT !.phase = next_phase,
                        !.phase_step = @ + 1,
                        !.messages.qc = Append(@, qc_message)]

\* ConsensusService._process_member_vote, lines 131-211, and the branch of
\* handle_vote that follows it, lines 413-441.
service_process_member_vote(s, voter_info, m) ==
    LET group_leader_id == voter_info.parent_id
        key == <<m.view, m.phase, m.value, group_leader_id>>
        pgv == s.pending_group_votes
        group_voters ==
            (IF key \in DOMAIN pgv THEN pgv[key] ELSE {}) \cup {m.from}
        s1 == [s EXCEPT !.pending_group_votes = (key :> group_voters) @@ pgv]
        local_threshold == get_local_quorum_threshold(voter_info.group_size)
        group_vote_message ==
            GroupVoteMsg(group_leader_id,
                         get_current_leader(s.config, m.view), m.value,
                         m.phase, m.view, s.current_round, group_voters)
        s2 == [s1 EXCEPT !.messages.vote = Append(@, group_vote_message)]
    IN  IF m.to # group_leader_id THEN s
        ELSE IF Cardinality(group_voters) < local_threshold THEN s1
        ELSE service_process_global_vote(s2, group_vote_message,
                                         "group_leader")

\* ConsensusService.handle_vote, lines 376-456.
service_handle_vote(s, m) ==
    IF m.view > s.current_view THEN buffer_vote(s, m)
    ELSE IF m.view < s.current_view THEN s
    ELSE
    LET voter_info == get_topology_info(s.config, m.from, m.view)
    IN  IF voter_info.role = "member"
        THEN service_process_member_vote(s, voter_info, m)
        ELSE service_process_global_vote(s, m, voter_info.role)

----------------------------------------------------------------------------
(* Proposal path *)

InSeq(x, seq) == \E i \in 1..Len(seq) : seq[i] = x

\* What buffer[node_id][proposal_view] = [] leaves in a list of buffered
\* votes when node_id is also a buffered view: a list, not a vote.
Holder == VoteMsg(None, None, None, "holder", None, None)

\* Lines 633-641: the per-node proposal buffer, kept in the same dict as the
\* per-view vote lists.
buffer_proposal(s, proposal_msg, node_id) ==
    LET buffer == s.message_buffer
        pv == proposal_msg.view
    IN  IF node_id \notin DOMAIN buffer
        THEN [s EXCEPT !.message_buffer =
                (node_id :> BufferEntry("node", <<>>,
                                        (pv :> <<proposal_msg>>))) @@ buffer]
        ELSE IF buffer[node_id].kind = "node"
        THEN LET nb == buffer[node_id].node
                 old == IF pv \in DOMAIN nb THEN nb[pv] ELSE <<>>
             IN [s EXCEPT !.message_buffer[node_id].node =
                    (pv :> Append(old, proposal_msg)) @@ nb]
        \* buffer[node_id] is the vote list of view node_id: list item
        \* assignment, IndexError past its end
        ELSE IF pv < Len(buffer[node_id].votes)
        THEN [s EXCEPT !.message_buffer[node_id].votes[pv + 1] = Holder]
        ELSE [s EXCEPT !.exc = TRUE]

handle_robot_prepare(s, robot_id, value, y) ==
    LET node_info == get_topology_info(s.config, robot_id, s.current_view)
        vote_message == VoteMsg(robot_id, node_info.parent_id, value,
                                "prepare", s.current_view, s.current_round)
        s1 == [s EXCEPT !.messages.vote = Append(@, vote_message)]
    IN  IF node_info.role = "root" THEN s
        ELSE handle_vote(emit_gated(count_message_sent(s1, 1),
                                    node_info.parent_id),
                         vote_message, y)

handle_proposal_message(s, proposal_msg, node_id, y) ==
    IF proposal_msg.view > s.current_view
    THEN buffer_proposal(s, proposal_msg, node_id)
    ELSE IF proposal_msg.view < s.current_view THEN s
    ELSE IF proposal_msg.from # get_current_leader(s.config, proposal_msg.view)
    THEN s
    ELSE IF ~check_safe_node(s, node_id, proposal_msg.view,
                             proposal_msg.value, proposal_msg.qc)
    THEN s
    ELSE IF InSeq(node_id, s.robot_nodes)
    THEN handle_robot_prepare(s, node_id, proposal_msg.value, y)
    ELSE s

\* Lines 1875-1884: the loop of robot_send_prepare_messages.
RECURSIVE robot_prepare_loop(_, _, _, _, _)
robot_prepare_loop(s, robots, proposal_msg, leader, y) ==
    IF robots = <<>> THEN s
    ELSE
    LET robot_id == Head(robots)
        s1 == handle_proposal_message(s, proposal_msg, robot_id, y)
    IN  IF robot_id = leader
        THEN robot_prepare_loop(s, Tail(robots), proposal_msg, leader, y)
        ELSE IF s.robot_node_states[robot_id].sent_prepare
        THEN robot_prepare_loop(s, Tail(robots), proposal_msg, leader, y)
        ELSE IF s1.susp # NoQcMsg
        THEN [s1 EXCEPT !.cont = Cont("robot_prepare", None, "none", None,
                                      leader, Tail(robots), <<>>,
                                      proposal_msg, robot_id)]
        ELSE IF s1.exc THEN s1
        ELSE robot_prepare_loop(
                [s1 EXCEPT !.robot_node_states[robot_id].sent_prepare = TRUE],
                Tail(robots), proposal_msg, leader, y)

\* Lines 567-605: the loop of trigger_robot_votes.
RECURSIVE robot_votes_loop(_, _, _, _, _, _, _)
robot_votes_loop(s, robots, view, ph, value, leader, y) ==
    IF robots = <<>> THEN s
    ELSE
    LET robot_id == Head(robots)
        node_info == get_topology_info(s.config, robot_id, view)
        vote_msg == VoteMsg(robot_id, node_info.parent_id, value, ph, view,
                            s.current_round)
        s1 == handle_vote([s EXCEPT !.messages.vote = Append(@, vote_msg)],
                          vote_msg, y)
    IN  IF robot_id = leader \/ node_info.role = "root"
        THEN robot_votes_loop(s, Tail(robots), view, ph, value, leader, y)
        ELSE IF s1.susp # NoQcMsg
        THEN [s1 EXCEPT !.cont = Cont("robot_votes", view, ph, value, leader,
                                      Tail(robots), <<>>, NoProposal,
                                      robot_id)]
        ELSE IF s1.exc THEN s1
        ELSE robot_votes_loop(s1, Tail(robots), view, ph, value, leader, y)

----------------------------------------------------------------------------
(* Message buffer replay: trigger_view_change, lines 1501-1510 *)

\* A replay that leaves the entry in the buffer.
keep_buffer_entry(s, new_view) == s

\* Line 1510: del buffer[new_view].
delete_buffer_entry(s, new_view) ==
    [s EXCEPT !.message_buffer = [k \in (DOMAIN @) \ {new_view} |-> @[k]]]

RECURSIVE replay_loop(_, _, _, _)
replay_loop(s, votes, new_view, y) ==
    IF votes = <<>> THEN delete_buffer_entry(s, new_view)
    ELSE
    LET s1 == handle_vote([s EXCEPT !.replayed = Append(@, Head(votes))],
                          Head(votes), y)
    IN  IF Head(votes) = Holder THEN [s EXCEPT !.exc = TRUE]
        ELSE IF s1.susp # NoQcMsg
        THEN [s1 EXCEPT !.cont = Cont("replay", new_view, "none", None, None,
                                      <<>>, Tail(votes), NoProposal, None)]
        ELSE IF s1.exc THEN s1
        ELSE replay_loop(s1, Tail(votes), new_view, y)

replay_buffer(s, new_view, y) ==
    IF new_view \notin DOMAIN s.message_buffer THEN s
    \* buffer[new_view] is the proposal dict of node new_view: the loop
    \* hands its keys (integers) to handle_vote, which raises
    ELSE IF s.message_buffer[new_view].kind = "node"
    THEN [s EXCEPT !.exc = TRUE]
    ELSE replay_loop(s, s.message_buffer[new_view].votes, new_view, y)

----------------------------------------------------------------------------
(* PRE-PREPARE *)

\* robot_send_pre_prepare without the test of last_pre_prepare_view.
robot_send_pre_prepare_repeating(s, highQC, ctx) ==
    LET cv == s.current_view
        proposer_id == get_current_leader(s.config, cv)
        proposal_value == IF highQC # NoQC THEN highQC.value
                          ELSE s.config.proposalValue
        message == PrePrepareMsg(proposer_id, proposal_value, cv,
                                 s.current_round, highQC)
        s1 == [s EXCEPT !.last_pre_prepare_view = cv]
        s2 == [s1 EXCEPT !.messages.pre_prepare = Append(@, message)]
        s3 == hierarchical_broadcast(s2, proposer_id, cv)
    IN  IF ~InSeq(proposer_id, s.robot_nodes) THEN s1
        ELSE [s3 EXCEPT
                !.slept = TRUE,
                !.tasks = @ \cup
                    {Task("robot_send_pre_prepare", cv, "none", None,
                          proposer_id, NoQcMsg, <<>>, <<>>, NoProposal, ctx,
                          None)}]

\* robot_send_pre_prepare up to its asyncio.sleep(1), lines 1716-1814.
\* ctx: "view_change" when called from trigger_view_change, whose buffer
\* replay waits for the return.
robot_send_pre_prepare(s, highQC, ctx) ==
    LET cv == s.current_view
        proposer_id == get_current_leader(s.config, cv)
        proposal_value == IF highQC # NoQC THEN highQC.value
                          ELSE s.config.proposalValue
        message == PrePrepareMsg(proposer_id, proposal_value, cv,
                                 s.current_round, highQC)
        s1 == [s EXCEPT !.last_pre_prepare_view = cv]
        s2 == [s1 EXCEPT !.messages.pre_prepare = Append(@, message)]
        s3 == hierarchical_broadcast(s2, proposer_id, cv)
    IN  IF s.last_pre_prepare_view = cv THEN s
        ELSE IF ~InSeq(proposer_id, s.robot_nodes) THEN s1
        ELSE [s3 EXCEPT
                !.slept = TRUE,
                !.tasks = @ \cup
                    {Task("robot_send_pre_prepare", cv, "none", None,
                          proposer_id, NoQcMsg, <<>>, <<>>, NoProposal, ctx,
                          None)}]

\* The last PRE-PREPARE of the log for `view`, or NoProposal.
last_proposal(s, view) ==
    LET log == s.messages.pre_prepare
        idx == {i \in 1..Len(log) : log[i].view = view}
    IN  IF idx = {} THEN NoProposal
        ELSE log[CHOOSE i \in idx : \A j \in idx : j <= i]

\* robot_send_pre_prepare after the sleep, lines 1815-1838, and whatever the
\* caller does on return.
robot_send_pre_prepare_wake(s, t, y) ==
    LET proposal_msg == last_proposal(s, s.current_view)
        s1 == [s EXCEPT
                !.phase = "prepare",
                !.phase_step = 1,
                !.timeout_task = t.view,
                !.robot_node_states =
                    [r \in DOMAIN @ |->
                        IF r # t.leader
                        THEN [@[r] EXCEPT !.received_pre_prepare = TRUE]
                        ELSE @[r]],
                !.tasks = (@ \cup {SleepTask("handle_consensus_timeout", t.view)})
                          \cup (IF proposal_msg = NoProposal THEN {}
                                ELSE {Task("robot_send_prepare_messages",
                                           s.current_view, "none", None, None,
                                           NoQcMsg, <<>>, <<>>, proposal_msg,
                                           "tail", None)})]
    IN  IF t.ctx = "view_change" THEN replay_buffer(s1, t.view, y) ELSE s1

----------------------------------------------------------------------------
(* View change *)

RobotReset == [received_pre_prepare |-> FALSE, sent_prepare |-> FALSE,
               sent_commit |-> FALSE]

\* reset_robot_states that leaves the flags as they are.
reset_robot_states_skipped(s) == s

reset_robot_states(s) ==
    [s EXCEPT !.robot_node_states =
        [r \in {s.robot_nodes[i] : i \in 1..Len(s.robot_nodes)} \cup DOMAIN @
            |-> IF InSeq(r, s.robot_nodes) THEN RobotReset ELSE @[r]]]

\* Lines 1447-1488: one NEW-VIEW per node.
RECURSIVE send_new_views(_, _, _, _)
send_new_views(s, node_id, new_view, old_view) ==
    IF node_id >= s.config.nodeCount THEN s
    ELSE
    LET next_leader_id == get_current_leader(s.config, new_view)
        new_view_msg == NewViewMsg(node_id, next_leader_id, new_view,
                                   old_view, s.current_round,
                                   s.node_states[node_id].highQC)
        s0 == [s EXCEPT !.messages.new_view = Append(@, new_view_msg)]
        \* a human node's NEW-VIEW goes to that node's own socket
        s1 == IF InSeq(node_id, s.robot_nodes) THEN s0
              ELSE emit_gated(s0, node_id)
        pnv == s1.pending_new_views
        old == IF new_view \in DOMAIN pnv THEN pnv[new_view] ELSE <<>>
        s2 == [s1 EXCEPT !.pending_new_views =
                (new_view :> ((node_id :> new_view_msg) @@ old)) @@ pnv]
    IN  IF node_id = next_leader_id
        THEN send_new_views(s1, node_id + 1, new_view, old_view)
        ELSE send_new_views(count_message_sent(s2, 1), node_id + 1, new_view,
                            old_view)

\* A Leader that ignores the highQC of the NEW-VIEW messages.
select_no_qc(pnv) == NoQC

\* Lines 1689-1698: the first highQC of maximal view, in node order.
select_high_qc(pnv) ==
    LET with == {k \in DOMAIN pnv : pnv[k].highQC # NoQC}
        best == {k \in with :
                    \A j \in with : pnv[j].highQC.view <= pnv[k].highQC.view}
    IN  IF with = {} THEN NoQC
        ELSE pnv[CHOOSE k \in best : \A j \in best : k <= j].highQC

start_new_view_consensus(s, view) ==
    LET leader == get_current_leader(s.config, view)
        pnv == IF view \in DOMAIN s.pending_new_views
               THEN s.pending_new_views[view] ELSE <<>>
    IN  IF Cardinality(DOMAIN pnv) < get_quorum_threshold(s.config) THEN s
        ELSE IF InSeq(leader, s.robot_nodes)
        THEN robot_send_pre_prepare(s, select_high_qc(pnv), "view_change")
        ELSE s

\* trigger_view_change that moves two views ahead.
trigger_view_change_skipping(s, old_view, y) ==
    LET new_view == old_view + 2
        s1 == [s EXCEPT !.current_view = new_view,
                        !.leader_id = get_current_leader(s.config, new_view)]
        s2 == send_new_views(reset_robot_states(s1), 0, new_view, old_view)
        s3 == start_new_view_consensus(s2, new_view)
    IN  IF s3.slept THEN s3 ELSE replay_buffer(s3, new_view, y)

trigger_view_change(s, old_view, y) ==
    LET new_view == old_view + 1
        s1 == [s EXCEPT !.current_view = new_view,
                        !.leader_id = get_current_leader(s.config, new_view)]
        s2 == send_new_views(reset_robot_states(s1), 0, new_view, old_view)
        s3 == start_new_view_consensus(s2, new_view)
    IN  IF s3.slept THEN s3 ELSE replay_buffer(s3, new_view, y)

\* handle_consensus_timeout that does not look at the view and the status.
handle_consensus_timeout_unguarded(s, view, y) ==
    trigger_view_change([s EXCEPT !.timeout_task = None], view, y)

\* handle_consensus_timeout after its sleep, lines 1351-1363.
handle_consensus_timeout(s, view, y) ==
    IF s.current_view = view /\ s.status = "running"
    THEN trigger_view_change([s EXCEPT !.timeout_task = None], view, y)
    ELSE s

----------------------------------------------------------------------------
(* Rounds *)

\* start_next_round that counts the round and stays in the view.
start_next_round_same_view(s) ==
    LET s2 == reset_robot_states(
                [s EXCEPT !.current_round = @ + 1,
                          !.start_view_of_round = s.current_view,
                          !.status = "running",
                          !.phase = "pre-prepare",
                          !.phase_step = 0,
                          !.consensus_result = "None",
                          !.total_messages_sent = 0])
        s3 == [s2 EXCEPT !.db = upsert_session(@, SessionId, s2)]
    IN  robot_send_pre_prepare(s3, NoQC, "tail")

\* start_next_round that keeps the message counter of the round before.
start_next_round_keeping_count(s) ==
    LET s1 == [s EXCEPT !.current_round = @ + 1,
                        !.current_view = @ + 1,
                        !.start_view_of_round = s.current_view + 1,
                        !.leader_id =
                            get_current_leader(s.config, s.current_view + 1),
                        !.status = "running",
                        !.phase = "pre-prepare",
                        !.phase_step = 0,
                        !.consensus_result = "None"]
        s2 == reset_robot_states(s1)
        s3 == [s2 EXCEPT !.db = upsert_session(@, SessionId, s2)]
    IN  robot_send_pre_prepare(s3, NoQC, "tail")

\* start_next_round after its sleep, lines 1516-1589.
start_next_round(s) ==
    LET s1 == [s EXCEPT !.current_round = @ + 1,
                        !.current_view = @ + 1,
                        !.start_view_of_round = s.current_view + 1,
                        !.leader_id =
                            get_current_leader(s.config, s.current_view + 1),
                        !.status = "running",
                        !.phase = "pre-prepare",
                        !.phase_step = 0,
                        !.consensus_result = "None",
                        !.total_messages_sent = 0]
        s2 == reset_robot_states(s1)
        \* line 1583: the snapshot of the new round
        s3 == [s2 EXCEPT !.db = upsert_session(@, SessionId, s2)]
    IN  robot_send_pre_prepare(s3, NoQC, "tail")

\* start_pbft_process, lines 1643-1666.
start_pbft_process(s) ==
    robot_send_pre_prepare(
        [s EXCEPT !.status = "running", !.phase = "new-view",
                  !.phase_step = 0],
        NoQC, "tail")

\* create_robot_nodes_and_start after its sleep, lines 1612-1635.
create_robot_nodes_and_start(s, robot_count) ==
    LET ids == 0..(robot_count - 1)
        s1 == [s EXCEPT
                !.robot_nodes = @ \o [i \in 1..robot_count |-> i - 1],
                !.connected_nodes = @ \o [i \in 1..robot_count |-> i - 1],
                !.robot_node_states =
                    [r \in ids \cup DOMAIN @ |->
                        IF r \in ids THEN RobotReset ELSE @[r]]]
    IN  start_pbft_process(s1)

\* start_consensus, lines 993-1012.
start_consensus(s) ==
    robot_send_pre_prepare(
        [s EXCEPT !.status = "running", !.phase = "new-view",
                  !.phase_step = 0],
        NoQC, "tail")

\* connect, lines 196-256, and check_and_start_consensus.
connect(s, node_id) ==
    LET s0 == [s EXCEPT !.room = TRUE]
        s1 == IF InSeq(node_id, s.connected_nodes) THEN s0
              ELSE [s0 EXCEPT !.connected_nodes = Append(@, node_id)]
    IN  IF Len(s1.connected_nodes) >= s1.config.nodeCount
        THEN start_consensus(s1)
        ELSE s1

----------------------------------------------------------------------------
(* Client events *)

\* send_prepare and send_commit, lines 276-388: a vote of the phase the
\* event names, for the current view, to the sender's parent.
send_vote_event(s, node_id, value, ph, y) ==
    LET node_info == get_topology_info(s.config, node_id, s.current_view)
        vote_message == VoteMsg(node_id, node_info.parent_id, value, ph,
                                s.current_view, s.current_round)
        s1 == [s EXCEPT !.messages.vote = Append(@, vote_message)]
    IN  IF node_info.role = "root" THEN s
        ELSE handle_vote(emit_gated(count_message_sent(s1, 1),
                                    node_info.parent_id),
                         vote_message, y)

send_prepare(s, node_id, value, y) ==
    send_vote_event(s, node_id, value, "prepare", y)

send_commit(s, node_id, value, y) ==
    send_vote_event(s, node_id, value, "commit", y)

\* send_message with type "vote", lines 390-456: the vote carries the
\* session's phase, and is logged before the root check.
send_message(s, node_id, value, y) ==
    LET node_info == get_topology_info(s.config, node_id, s.current_view)
        message == VoteMsg(node_id, node_info.parent_id, value, s.phase,
                           s.current_view, s.current_round)
        s1 == [s EXCEPT !.messages.vote = Append(@, message)]
    IN  IF node_info.role = "root" THEN s1
        ELSE handle_vote(count_message_sent(s1, 1), message, y)

----------------------------------------------------------------------------
(* Coroutines woken by the event loop *)

\* trigger_robot_votes after its sleep, lines 548-605.
trigger_robot_votes(s, view, ph, value, y) ==
    IF s.current_view # view THEN s
    ELSE IF ph = "decide" THEN finalize_consensus(s, "Consensus Success")
    ELSE robot_votes_loop(s, s.robot_nodes, view, ph, value,
                          get_current_leader(s.config, s.current_view), y)

\* robot_send_prepare_messages after its sleep, lines 1864-1884.
robot_send_prepare_messages(s, view, proposal_msg, y) ==
    IF s.current_view # view THEN s
    ELSE robot_prepare_loop(s, s.robot_nodes, proposal_msg,
                            get_current_leader(s.config, view), y)

\* handle_vote from the return of its room-wide emit to the end of the
\* coroutine that called it.
resume_vote(s, t, y) ==
    LET s1 == handle_vote_after_emit(s, t.qcm)
    IN  CASE t.ctx = "robot_prepare" ->
                robot_prepare_loop(
                    [s1 EXCEPT !.robot_node_states[t.robot].sent_prepare = TRUE],
                    t.robots, t.proposal, t.leader, y)
          [] t.ctx = "robot_votes" ->
                robot_votes_loop(s1, t.robots, t.view, t.phase, t.value,
                                 t.leader, y)
          [] t.ctx = "replay" -> replay_loop(s1, t.votes, t.view, y)
          [] OTHER -> s1

----------------------------------------------------------------------------
(* The state machine *)

NoProbe == [locked |-> NoQC, view |-> None, value |-> None, qc |-> NoQC,
            safe |-> FALSE]

\* Session configurations: four nodes in two groups, all of them robots, or
\* node 3 left to a human.
Configs == {[nodeCount |-> 4, branchCount |-> 2, robotNodes |-> r,
             proposalValue |-> 7, maliciousProposer |-> FALSE,
             messageDeliveryRate |-> 100] : r \in {3, 4}}

\* The dict create_session builds for a configuration, with node 2's
\* lockedQC as given.
NewSession(cfg, locked) ==
    [config |-> cfg, status |-> "waiting", phase |-> "waiting",
     phase_step |-> 0, current_view |-> 0, current_round |-> 1,
     start_view_of_round |-> 0, leader_id |-> 0, robot_nodes |-> <<>>,
     robot_node_states |-> <<>>,
     node_states |-> [n \in 0..(cfg.nodeCount - 1) |->
                        [lockedQC |-> IF n = 2 THEN locked ELSE NoQC,
                         prepareQC |-> NoQC, highQC |-> NoQC]],
     messages |-> [pre_prepare |-> <<>>, vote |-> <<>>, qc |-> <<>>,
                   new_view |-> <<>>],
     pending_group_votes |-> <<>>, pending_votes |-> <<>>,
     pending_new_views |-> <<>>, message_buffer |-> <<>>,
     total_messages_sent |-> 0, consensus_finalized_view |-> None,
     last_pre_prepare_view |-> None, consensus_history |-> <<>>,
     consensus_result |-> "None", timeout_task |-> None]

\* The session create_session leaves for a configuration of cfgs, with the
\* event loop as given.
Session(cfgs, locked, loop) ==
    \E cfg \in cfgs :
        LET s0 == NewSession(cfg, locked)
        IN  /\ config = s0.config
            /\ status = s0.status
            /\ phase = s0.phase
            /\ phase_step = s0.phase_step
            /\ current_view = s0.current_view
            /\ current_round = s0.current_round
            /\ start_view_of_round = s0.start_view_of_round
            /\ leader_id = s0.leader_id
            /\ robot_nodes = s0.robot_nodes
            /\ robot_node_states = s0.robot_node_states
            /\ node_states = s0.node_states
            /\ messages = s0.messages
            /\ pending_group_votes = s0.pending_group_votes
            /\ pending_votes = s0.pending_votes
            /\ pending_new_views = s0.pending_new_views
            /\ message_buffer = s0.message_buffer
            /\ total_messages_sent = s0.total_messages_sent
            /\ consensus_finalized_view = s0.consensus_finalized_view
            /\ last_pre_prepare_view = s0.last_pre_prepare_view
            /\ consensus_history = s0.consensus_history
            /\ consensus_result = s0.consensus_result
            /\ timeout_task = s0.timeout_task
            /\ connected_nodes = <<>>
            /\ room = FALSE
            /\ tasks = loop
            /\ inbound = 0
            /\ replayed = <<>>
            \* line 156: the initial snapshot
            /\ db = upsert_session(EmptyDb, SessionId, s0)
            /\ gate = [delivered |-> 0, dropped |-> 0]
            /\ vote_probe = None
            /\ sn_probe = NoProbe

Created(locked, loop) == Session(Configs, locked, loop)

\* create_session: create_robot_nodes_and_start is scheduled.
Init == Created(NoQC, {SleepTask("create_robot_nodes_and_start", None)})

\* The session after a step: the record's fields, and the coroutine that
\* suspended in its emit back on the event loop.
Commit(s) ==
    /\ config' = s.config
    /\ status' = s.status
    /\ phase' = s.phase
    /\ phase_step' = s.phase_step
    /\ current_view' = s.current_view
    /\ current_round' = s.current_round
    /\ start_view_of_round' = s.start_view_of_round
    /\ leader_id' = s.leader_id
    /\ robot_nodes' = s.robot_nodes
    /\ robot_node_states' = s.robot_node_states
    /\ node_states' = s.node_states
    /\ messages' = s.messages
    /\ pending_group_votes' = s.pending_group_votes
    /\ pending_votes' = s.pending_votes
    /\ pending_new_views' = s.pending_new_views
    /\ message_buffer' = s.message_buffer
    /\ total_messages_sent' = s.total_messages_sent
    /\ consensus_finalized_view' = s.consensus_finalized_view
    /\ last_pre_prepare_view' = s.last_pre_prepare_view
    /\ consensus_history' = s.consensus_history
    /\ consensus_result' = s.consensus_result
    /\ timeout_task' = s.timeout_task
    /\ connected_nodes' = s.connected_nodes
    /\ room' = s.room
    /\ replayed' = s.replayed
    /\ db' = s.db
    /\ gate' = s.gate
    /\ tasks' = IF s.susp = NoQcMsg THEN s.tasks
                ELSE s.tasks \cup
                     {Task("handle_vote", s.cont.view, s.cont.phase,
                           s.cont.value, s.cont.leader, s.susp, s.cont.robots,
                           s.cont.votes, s.cont.proposal, s.cont.kind,
                           s.cont.robot)}

\* The session as the woken coroutine t sees it.
Run(t) == [S EXCEPT !.tasks = @ \ {t}]

\* The draws random.random() can return to one run of a handler; with a
\* rate of 100 or more should_deliver_message returns before drawing.
Draws == IF config.messageDeliveryRate >= 100 THEN {<<>>}
         ELSE [1..MaxDraws -> DrawValues]

\* The session s as a handler run that will draw rnd sees it.
Drawn(s, rnd) == [s EXCEPT !.rnd = rnd]

\* An emit to the session's room suspends the caller when the room has a
\* participant, and returns at once when it is empty.
Yields == IF room THEN BOOLEAN ELSE {FALSE}

CreateRobotNodesAndStart ==
    \E t \in tasks, rnd \in Draws :
        /\ t.kind = "create_robot_nodes_and_start"
        /\ Commit(create_robot_nodes_and_start(Drawn(Run(t), rnd),
                                               config.robotNodes))
        /\ UNCHANGED <<inbound, vote_probe, sn_probe>>

RobotSendPrePrepare ==
    \E t \in tasks, y \in Yields, rnd \in Draws :
        /\ t.kind = "robot_send_pre_prepare"
        /\ Commit(robot_send_pre_prepare_wake(Drawn(Run(t), rnd), t, y))
        /\ UNCHANGED <<inbound, vote_probe, sn_probe>>

RobotSendPrepareMessages ==
    \E t \in tasks, y \in Yields, rnd \in Draws :
        /\ t.kind = "robot_send_prepare_messages"
        /\ Commit(robot_send_prepare_messages(Drawn(Run(t), rnd), t.view,
                                              t.proposal, y))
        /\ UNCHANGED <<inbound, vote_probe, sn_probe>>

TriggerRobotVotes ==
    \E t \in tasks, y \in Yields, rnd \in Draws :
        /\ t.kind = "trigger_robot_votes"
        /\ Commit(trigger_robot_votes(Drawn(Run(t), rnd), t.view, t.phase, t.value, y))
        /\ UNCHANGED <<inbound, vote_probe, sn_probe>>

ResumeVote ==
    \E t \in tasks, y \in Yields, rnd \in Draws :
        /\ t.kind = "handle_vote"
        /\ Commit(resume_vote(Drawn(Run(t), rnd), t, y))
        /\ UNCHANGED <<inbound, vote_probe, sn_probe>>

\* handle_consensus_timeout wakes from its 40 s sleep.  The other sleeps
\* of a view are of 1, 2 and 10 s and the emits return within the loop's
\* next turns, so the timer of a view wakes after them.  A timer of the
\* current view that sleeps beside start_next_round was created after the
\* view was finalized (finalize_consensus cancels the one created before),
\* and the 10 s of start_next_round end before its 40 s; a timer of an
\* earlier view can wake while start_next_round sleeps.
HandleConsensusTimeout ==
    \E t \in tasks, y \in Yields, rnd \in Draws :
        /\ t.kind = "handle_consensus_timeout"
        /\ \A u \in tasks :
              \/ u.kind = "handle_consensus_timeout"
              \/ u.kind = "start_next_round" /\ t.view # current_view
        /\ current_view < MaxView \/ t.view # current_view
        /\ Commit(handle_consensus_timeout(Drawn(Run(t), rnd), t.view, y))
        /\ UNCHANGED <<inbound, vote_probe, sn_probe>>

StartNextRound ==
    \E t \in tasks, rnd \in Draws :
        /\ t.kind = "start_next_round"
        /\ current_view < MaxView
        /\ Commit(start_next_round(Drawn(Run(t), rnd)))
        /\ UNCHANGED <<inbound, vote_probe, sn_probe>>

SendPrepare ==
    \E node_id \in ClientNodes, value \in Values, y \in Yields,
       rnd \in Draws :
        /\ inbound < MaxInbound
        /\ Commit(send_prepare(Drawn(S, rnd), node_id, value, y))
        /\ inbound' = inbound + 1
        /\ UNCHANGED <<vote_probe, sn_probe>>

SendCommit ==
    \E node_id \in ClientNodes, value \in Values, y \in Yields,
       rnd \in Draws :
        /\ inbound < MaxInbound
        /\ Commit(send_commit(Drawn(S, rnd), node_id, value, y))
        /\ inbound' = inbound + 1
        /\ UNCHANGED <<vote_probe, sn_probe>>

SendMessage ==
    \E node_id \in ClientNodes, value \in Values, y \in Yields,
       rnd \in Draws :
        /\ inbound < MaxInbound
        /\ Commit(send_message(Drawn(S, rnd), node_id, value, y))
        /\ inbound' = inbound + 1
        /\ UNCHANGED <<vote_probe, sn_probe>>

Connect ==
    \E node_id \in ClientNodes, rnd \in Draws :
        /\ inbound < MaxInbound
        /\ Commit(connect(Drawn(S, rnd), node_id))
        /\ inbound' = inbound + 1
        /\ UNCHANGED <<vote_probe, sn_probe>>

Next ==
    \/ CreateRobotNodesAndStart
    \/ RobotSendPrePrepare
    \/ RobotSendPrepareMessages
    \/ TriggerRobotVotes
    \/ ResumeVote
    \/ HandleConsensusTimeout
    \/ StartNextRound
    \/ SendPrepare
    \/ SendCommit
    \/ SendMessage
    \/ Connect

Spec == Init /\ [][Next]_vars

----------------------------------------------------------------------------
(* A session whose view 1 has a human Leader *)

\* Node 0 is the only robot: it leads view 0, and node 1, the Leader of
\* view 1, is a human.
HumanLeaderConfigs ==
    {[nodeCount |-> 4, branchCount |-> 2, robotNodes |-> 1,
      proposalValue |-> 7, maliciousProposer |-> FALSE,
      messageDeliveryRate |-> 100]}

InitHumanLeader ==
    Session(HumanLeaderConfigs, NoQC,
            {SleepTask("create_robot_nodes_and_start", None)})

NextHumanLeader ==
    \/ CreateRobotNodesAndStart
    \/ RobotSendPrePrepare
    \/ RobotSendPrepareMessages
    \/ TriggerRobotVotes
    \/ HandleConsensusTimeout
    \/ SendPrepare
    \/ SendCommit
    \/ SendMessage
    \/ Connect

SpecHumanLeader == InitHumanLeader /\ [][NextHumanLeader]_vars

----------------------------------------------------------------------------
(* A session of robots only *)

\* Highest view of the robots-only session: views 0..4 give every node the
\* Leader's place, and node 0 a second time.
MaxRobotView == 4

\* Four robots in two groups; maliciousProposer and messageDeliveryRate as
\* the creator of the session sets them.  should_deliver_message (lines
\* 45-55) is consulted only before an emit to the socket of a connected
\* client, and the vote is handed to handle_vote whatever it answers.
RobotConfigs ==
    {[nodeCount |-> 4, branchCount |-> 2, robotNodes |-> 4,
      proposalValue |-> 7, maliciousProposer |-> m,
      messageDeliveryRate |-> d] : m \in BOOLEAN, d \in {0, 50, 100}}

InitRobots ==
    Session(RobotConfigs, NoQC,
            {SleepTask("create_robot_nodes_and_start", None)})

\* start_next_round wakes from its sleep, in a view below MaxRobotView.
NextRound ==
    \E t \in tasks, rnd \in Draws :
        /\ t.kind = "start_next_round"
        /\ current_view < MaxRobotView
        /\ Commit(start_next_round(Drawn(Run(t), rnd)))
        /\ UNCHANGED <<inbound, vote_probe, sn_probe>>

NextRobots ==
    \/ CreateRobotNodesAndStart
    \/ RobotSendPrePrepare
    \/ RobotSendPrepareMessages
    \/ TriggerRobotVotes
    \/ NextRound

\* A coroutine of the robots-only session is asleep with a sleep that ends:
\* the state in which NextRobots can take a step.
RobotsRunnable ==
    \E t \in tasks :
        \/ t.kind \in {"create_robot_nodes_and_start", "robot_send_pre_prepare",
                       "robot_send_prepare_messages", "trigger_robot_votes"}
        \/ t.kind = "start_next_round" /\ current_view < MaxRobotView

\* The event loop runs every coroutine whose sleep is over: weak fairness
\* of NextRobots, written with RobotsRunnable for its enabling condition
\* and "vars changes" for its step (every step of NextRobots takes its task
\* off the loop, and no other step changes vars).  The timer of a view is
\* not among the coroutines that wake: the robots reach the commit QC
\* within 1 + 10 + 2 + 2 s, and finalize_consensus cancels the timer before
\* its 40 s.
SpecRobots ==
    /\ InitRobots
    /\ [][NextRobots]_vars
    /\ ([]<>(~RobotsRunnable) \/ []<><<TRUE>>_vars)

----------------------------------------------------------------------------
(* A session of seven nodes in groups of three *)

\* N = 7, K = 2: group_size is 3; node 0 is the only robot and leads
\* view 0.
GroupConfigs ==
    {[nodeCount |-> 7, branchCount |-> 2, robotNodes |-> 1,
      proposalValue |-> 7, maliciousProposer |-> FALSE,
      messageDeliveryRate |-> 100]}

InitGroups ==
    Session(GroupConfigs, NoQC,
            {SleepTask("create_robot_nodes_and_start", None)})

\* The nodes behind node 3.
GroupVoters == {4, 5, 6}

\* handle_vote on a prepare vote of node 4, 5 or 6 for the current view,
\* addressed to node 3 or to the parent the topology gives the voter.
MemberVote ==
    \E node_id \in GroupVoters, value \in Values, y \in Yields :
      \E to \in {3, get_topology_info(config, node_id,
                                       current_view).parent_id},
         rnd \in Draws :
        /\ inbound < MaxInbound
        /\ phase = "prepare"
        /\ Commit(handle_vote(Drawn(S, rnd),
                VoteMsg(node_id, to, value, "prepare", current_view,
                        current_round), y))
        /\ inbound' = inbound + 1
        /\ vote_probe' = current_view
        /\ UNCHANGED sn_probe

NextGroups ==
    \/ CreateRobotNodesAndStart
    \/ RobotSendPrePrepare
    \/ RobotSendPrepareMessages
    \/ HandleConsensusTimeout
    \/ MemberVote

SpecGroups == InitGroups /\ [][NextGroups]_vars

----------------------------------------------------------------------------
(* handle_vote called with a vote addressed to any node *)

\* handle_vote on a vote of the current view that names any node of the
\* session as its voter and any node as its target.
AddressedVote ==
    \E from \in 0..(config.nodeCount - 1), to \in 0..(config.nodeCount - 1),
       value \in Values, ph \in VotePhases, y \in Yields, rnd \in Draws :
        /\ inbound < MaxInbound
        /\ Commit(handle_vote(Drawn(S, rnd),
                VoteMsg(from, to, value, ph, current_view, current_round),
                y))
        /\ inbound' = inbound + 1
        /\ vote_probe' = current_view
        /\ UNCHANGED sn_probe

\* Four nodes in two groups; node 0, the Leader of view 0, is the only
\* robot.
TargetConfigs ==
    {[nodeCount |-> 4, branchCount |-> 2, robotNodes |-> 1,
      proposalValue |-> 7, maliciousProposer |-> FALSE,
      messageDeliveryRate |-> 100]}

InitTargets ==
    Session(TargetConfigs, NoQC,
            {SleepTask("create_robot_nodes_and_start", None)})

NextTargets ==
    \/ CreateRobotNodesAndStart
    \/ RobotSendPrePrepare
    \/ RobotSendPrepareMessages
    \/ TriggerRobotVotes
    \/ HandleConsensusTimeout
    \/ AddressedVote

SpecTargets == InitTargets /\ [][NextTargets]_vars

----------------------------------------------------------------------------
(* A session behind a lossy delivery gate *)

\* Three robots and the human node 3, which receives the forwards of its
\* group leader and its own NEW-VIEW through the gate; the gate drops
\* everything, draws for every emit, or passes everything.
GateConfigs ==
    {[nodeCount |-> 4, branchCount |-> 2, robotNodes |-> 3,
      proposalValue |-> 7, maliciousProposer |-> FALSE,
      messageDeliveryRate |-> rate] : rate \in {0, 50, 100}}

InitGate ==
    Session(GateConfigs, NoQC,
            {SleepTask("create_robot_nodes_and_start", None)})

SpecGate == InitGate /\ [][Next]_vars

----------------------------------------------------------------------------
(* A session of robots whose process is restarted *)

\* Four robots in two groups, the Leader honest or not, with the delivery
\* rates the creator of the session can choose.
RestartConfigs ==
    {[nodeCount |-> 4, branchCount |-> 2, robotNodes |-> 4,
      proposalValue |-> 7, maliciousProposer |-> m,
      messageDeliveryRate |-> d] : m \in BOOLEAN, d \in {0, 50, 100}}

InitRestart ==
    Session(RestartConfigs, NoQC,
            {SleepTask("create_robot_nodes_and_start", None)})

\* The process ends and a new one runs on_startup on the same database
\* file: the coroutines of the old event loop are gone with it.
OnStartup ==
    \E rnd \in Draws :
        /\ Commit(on_startup(Drawn(S, rnd)))
        /\ UNCHANGED <<inbound, vote_probe, sn_probe>>

NextRestart ==
    \/ CreateRobotNodesAndStart
    \/ RobotSendPrePrepare
    \/ RobotSendPrepareMessages
    \/ TriggerRobotVotes
    \/ NextRound
    \/ OnStartup

SpecRestart == InitRestart /\ [][NextRestart]_vars

----------------------------------------------------------------------------
(* handle_vote called with a vote of any view *)

\* handle_vote(session_id, vote_message) on a vote a caller built for
\* `view`, addressed to the voter's parent in that view.
HandleVote ==
    \E node_id \in ClientNodes, value \in Values, view \in 0..MaxView,
       ph \in {"prepare", "commit"}, y \in Yields, rnd \in Draws :
        /\ inbound < MaxInbound
        /\ Commit(handle_vote(Drawn(S, rnd),
                VoteMsg(node_id,
                        get_topology_info(config, node_id, view).parent_id,
                        value, ph, view, current_round), y))
        /\ inbound' = inbound + 1
        /\ vote_probe' = view
        /\ UNCHANGED sn_probe

NextVote ==
    \/ CreateRobotNodesAndStart
    \/ RobotSendPrePrepare
    \/ RobotSendPrepareMessages
    \/ TriggerRobotVotes
    \/ ResumeVote
    \/ HandleConsensusTimeout
    \/ StartNextRound
    \/ Connect
    \/ HandleVote

SpecVote == Init /\ [][NextVote]_vars

----------------------------------------------------------------------------
(* The timer of a view against a handle_vote suspended in an emit *)

\* handle_consensus_timeout wakes when its 40 s are over, whatever the
\* other coroutines of the session wait for: a handle_vote suspended in the
\* emit of its QC (lines 941-948) has not applied the QC nor called
\* finalize_consensus yet.
TimeoutWakes ==
    \E t \in tasks, y \in Yields, rnd \in Draws :
        /\ t.kind = "handle_consensus_timeout"
        /\ current_view < MaxView \/ t.view # current_view
        /\ Commit(handle_consensus_timeout(Drawn(Run(t), rnd), t.view, y))
        /\ UNCHANGED <<inbound, vote_probe, sn_probe>>

NextRace ==
    \/ CreateRobotNodesAndStart
    \/ RobotSendPrePrepare
    \/ RobotSendPrepareMessages
    \/ TriggerRobotVotes
    \/ ResumeVote
    \/ TimeoutWakes
    \/ StartNextRound
    \/ Connect

SpecRace == Init /\ [][NextRace]_vars

----------------------------------------------------------------------------
(* One sequence of votes through handle_vote and through ConsensusService *)

MaxFed == 4

ServiceConfigs ==
    {[nodeCount |-> 4, branchCount |-> 2, robotNodes |-> 1,
      proposalValue |-> 7, maliciousProposer |-> FALSE,
      messageDeliveryRate |-> 100]}

InitService ==
    Session(ServiceConfigs, NoQC,
            {SleepTask("create_robot_nodes_and_start", None)})

\* The session ConsensusService works on: a copy of the driver's session,
\* taken when the first vote arrives.
ServiceSession == IF inbound = 0 THEN S ELSE vote_probe

\* What the two sessions are compared on.
Tallies(s) ==
    [pending_group_votes |-> s.pending_group_votes,
     pending_votes |-> s.pending_votes,
     phase |-> s.phase,
     phase_step |-> s.phase_step,
     qc |-> s.messages.qc]

\* One vote of the current view, addressed to the voter's parent, handed to
\* handle_vote on the driver's session and to ConsensusService.handle_vote
\* on the copy.
FeedVote ==
    \E from \in 1..(config.nodeCount - 1), value \in Values,
       ph \in VotePhases, y \in Yields, rnd \in Draws :
        LET m == VoteMsg(from,
                         get_topology_info(config, from,
                                           current_view).parent_id,
                         value, ph, current_view, current_round)
        IN  /\ phase = "prepare" \/ inbound > 0
            /\ inbound < MaxFed
            /\ Commit(handle_vote(Drawn(S, rnd), m, y))
            /\ inbound' = inbound + 1
            /\ vote_probe' = service_handle_vote(ServiceSession, m)
            /\ UNCHANGED sn_probe

NextService ==
    \/ inbound = 0 /\ CreateRobotNodesAndStart
    \/ inbound = 0 /\ RobotSendPrePrepare
    \/ FeedVote

SpecService == InitService /\ [][NextService]_vars

----------------------------------------------------------------------------
(* check_safe_node as a function of the node's lockedQC and the proposal *)

CommitQC(view, value) ==
    [phase |-> "commit", view |-> view, value |-> value, signers |-> {0, 1, 3},
     total_weight |-> 3]

PrepareQC(view, value) ==
    [phase |-> "prepare", view |-> view, value |-> value, signers |-> {0, 1, 3},
     total_weight |-> 3]

\* Node 2 holds no lock, or the commit QC of some view and value.
InitSafeNode ==
    \E locked \in {NoQC} \cup {CommitQC(v, x) : v \in 0..MaxSafeView, x \in Values} :
        Created(locked, {})

\* check_safe_node(session, 2, proposal_view, proposal_value, proposal_qc).
CheckSafeNode ==
    \E proposal_view \in 0..MaxSafeView, proposal_value \in Values,
       proposal_qc \in {NoQC} \cup {PrepareQC(v, x) : v \in 0..MaxSafeView, x \in Values} :
        /\ sn_probe' = [locked |-> node_states[2].lockedQC,
                        view |-> proposal_view, value |-> proposal_value,
                        qc |-> proposal_qc,
                        safe |-> check_safe_node(S, 2, proposal_view,
                                                 proposal_value, proposal_qc)]
        /\ UNCHANGED <<config, status, phase, phase_step, current_view,
                       current_round, start_view_of_round, leader_id,
                       robot_nodes, robot_node_states, node_states, messages,
                       pending_group_votes, pending_votes, pending_new_views,
                       message_buffer, total_messages_sent,
                       consensus_finalized_view, last_pre_prepare_view,
                       consensus_history, consensus_result, timeout_task,
                       connected_nodes, room, tasks, inbound, replayed,
                       db, gate, vote_probe>>

NextSafeNode == CheckSafeNode

SpecSafeNode == InitSafeNode /\ [][NextSafeNode]_vars

----------------------------------------------------------------------------
(* Properties *)

\* C1: every QC in the qc log carries at least globalQuorum(N) signers
\* (a set of node ids, so pairwise distinct), whatever votes came in.
C1_QuorumOfSigners ==
    \A i \in 1..Len(messages.qc) :
        Cardinality(messages.qc[i].qc.signers) >= get_quorum_threshold(config)

\* C2: the qc log never holds two QC messages with the same
\* (view, phase, value).
C2_OneQCPerKey ==
    \A i, j \in 1..Len(messages.qc) :
        i # j =>
            <<messages.qc[i].view, messages.qc[i].phase, messages.qc[i].qc.value>>
            # <<messages.qc[j].view, messages.qc[j].phase, messages.qc[j].qc.value>>

\* C3: two commit QCs formed at views v1 < v2 carry the same value, or the
\* proposal of view v2 carried a QC of a view above v1 with the value of the
\* commit QC of v1.
C3_CommitQCsAgree ==
    \A i, j \in 1..Len(messages.qc) :
        LET a == messages.qc[i].qc
            b == messages.qc[j].qc
        IN  (a.phase = "commit" /\ b.phase = "commit" /\ a.view < b.view) =>
                \/ a.value = b.value
                \/ \E k \in 1..Len(messages.pre_prepare) :
                      LET p == messages.pre_prepare[k]
                      IN  /\ p.view = b.view
                          /\ p.qc # NoQC
                          /\ p.qc.view > a.view
                          /\ p.qc.value = a.value

\* C4: on every node lockedQC.view never decreases, and lockedQC changes
\* only to a commit QC of the qc log, from nil or from a QC of a strictly
\* lower view.
C4_LockedViewMonotone ==
    [][\A n \in DOMAIN node_states :
          LET old == node_states[n].lockedQC
              new == node_states'[n].lockedQC
          IN  /\ old # NoQC => (new # NoQC /\ new.view >= old.view)
              /\ new # old =>
                    /\ new.phase = "commit"
                    /\ old = NoQC \/ new.view > old.view
                    /\ \E i \in 1..Len(messages'.qc) : messages'.qc[i].qc = new
      ]_vars

\* C4 witness: node 0 went from the commit QC of view 0 to that of view 1,
\* and prepare and pre-commit QCs of view 1 were applied on the way.
C4_Witness ==
    /\ node_states[0].lockedQC # NoQC
    /\ node_states[0].lockedQC.view = 1
    /\ \E i \in 1..Len(messages.qc) :
          messages.qc[i].qc.phase = "commit" /\ messages.qc[i].qc.view = 0
    /\ \E i \in 1..Len(messages.qc) :
          messages.qc[i].qc.phase = "pre-commit" /\ messages.qc[i].qc.view = 1

\* C5: with lockedQC of view v, check_safe_node refuses every proposal of
\* view <= v with another value whose QC does not extend lockedQC.
C5_LockedRefuses ==
    LET p == sn_probe
        extending == /\ p.qc # NoQC
                     /\ p.qc.view > p.locked.view
                     /\ p.qc.value = p.locked.value
    IN  (/\ p.view # None
         /\ p.locked # NoQC
         /\ p.view <= p.locked.view
         /\ p.value # p.locked.value
         /\ ~extending) => ~p.safe

\* C5 witness: a proposal of the locked view, with another value and a QC
\* of a higher view for that other value, was refused.
C5_Witness ==
    /\ sn_probe.view # None
    /\ sn_probe.locked # NoQC
    /\ sn_probe.view = sn_probe.locked.view
    /\ sn_probe.value # sn_probe.locked.value
    /\ sn_probe.qc # NoQC
    /\ sn_probe.qc.view > sn_probe.locked.view
    /\ sn_probe.qc.value = sn_probe.value
    /\ ~sn_probe.safe

\* C6: check_safe_node answers as the five-step rule does; locked on
\* {view 5, value 7, commit} it refuses {view 4, value 9, no QC} and accepts
\* {view 6, value 9, no QC}.
C6_FiveStepRule ==
    LET p == sn_probe
        rule == IF p.locked = NoQC THEN TRUE
                ELSE IF p.view > p.locked.view THEN TRUE
                ELSE IF p.qc # NoQC
                THEN p.qc.view > p.locked.view /\ p.qc.value = p.locked.value
                ELSE p.value = p.locked.value /\ p.view >= p.locked.view
        seeded == /\ p.locked # NoQC
                  /\ p.locked.view = 5
                  /\ p.locked.value = 7
                  /\ p.locked.phase = "commit"
                  /\ p.value = 9
                  /\ p.qc = NoQC
    IN  p.view # None =>
            /\ p.safe = rule
            /\ (seeded /\ p.view = 4) => ~p.safe
            /\ (seeded /\ p.view = 6) => p.safe

\* C6 witness: locked on {view 5, value 7}, the proposal {view 6, value 9,
\* no QC} was accepted.
C6_Witness ==
    /\ sn_probe.locked # NoQC
    /\ sn_probe.locked.view = 5
    /\ sn_probe.locked.value = 7
    /\ sn_probe.view = 6
    /\ sn_probe.value = 9
    /\ sn_probe.qc = NoQC
    /\ sn_probe.safe

\* C7: from the QC log append of a vote that reached quorum to the
\* application of the QC to the node states, no other handler, timer or
\* robot callback of the session takes a step: while a handle_vote is
\* suspended in its emit, the only step is its own resumption.
C7_QuorumHandlingAtomic ==
    [][(\E t \in tasks : t.kind = "handle_vote") =>
          (\E t \in tasks : t.kind = "handle_vote" /\ t \notin tasks')]_vars

\* C8: while current_view is unchanged, the phase never moves back along
\* new-view, prepare, pre-commit, commit, decide, completed.
C8_PhaseMovesForward ==
    [][LET rank(ph) == CASE ph = "waiting"     -> 0
                         [] ph = "new-view"    -> 1
                         [] ph = "pre-prepare" -> 1
                         [] ph = "prepare"     -> 2
                         [] ph = "pre-commit"  -> 3
                         [] ph = "commit"      -> 4
                         [] ph = "decide"      -> 5
                         [] OTHER              -> 6
       IN  current_view' = current_view => rank(phase') >= rank(phase)
      ]_vars

\* C9: handle_vote leaves the session as it is on a vote of a view below
\* current_view, and on a vote of a view above it only appends the vote to
\* the buffer entry of that view.
C9_StaleDroppedFutureBuffered ==
    \A node_id \in ClientNodes, value \in Values, view \in 0..(MaxView + 1),
       ph \in VotePhases, y \in BOOLEAN :
        LET m == VoteMsg(node_id,
                         get_topology_info(config, node_id, view).parent_id,
                         value, ph, view, current_round)
            entry == IF view \in DOMAIN message_buffer
                     THEN message_buffer[view].votes ELSE <<>>
            buffered == (view :> [kind |-> "votes", votes |-> Append(entry, m),
                                  node |-> <<>>]) @@ message_buffer
        IN  /\ view < current_view => handle_vote(S, m, y) = S
            /\ view > current_view =>
                  handle_vote(S, m, y) = [S EXCEPT !.message_buffer = buffered]

\* C9 witness: a vote for view 1 was buffered while the session was in
\* view 0, and in view 1 handle_vote has just been given a vote of view 0.
C9_Witness ==
    /\ current_view = 1
    /\ vote_probe = 0
    /\ 1 \in DOMAIN message_buffer
    /\ message_buffer[1].votes # <<>>

C11_BufferDrainedOnEntry ==
    \A w \in DOMAIN message_buffer :
        w <= current_view =>
            \/ \E t \in tasks : t.kind = "robot_send_pre_prepare"
            \/ \E t \in tasks : t.kind = "handle_vote" /\ t.ctx = "replay"

\* C12: in a view that is already finalized, finalize_consensus returns the
\* session as it is (status, phase, phase_step, consensus_result,
\* consensus_history and the scheduled tasks included), and the history
\* holds exactly one record of that view and never two of any view.
C12_FinalizeOncePerView ==
    /\ consensus_finalized_view = current_view =>
          /\ \A st \in {"Consensus Success", "Consensus Completed"} :
                finalize_consensus(S, st) = S
          /\ Cardinality({i \in 1..Len(consensus_history) :
                            consensus_history[i].view = current_view}) = 1
    /\ \A i, j \in 1..Len(consensus_history) :
          i # j => consensus_history[i].view # consensus_history[j].view

\* C12 witness: view 0 reached its commit QC twice, so finalize_consensus
\* was called twice in view 0, and the second call has returned.
C12_Witness ==
    /\ current_view = 0
    /\ consensus_finalized_view = 0
    /\ Cardinality({i \in 1..Len(messages.qc) :
                      /\ messages.qc[i].view = 0
                      /\ messages.qc[i].next_phase = "decide"}) >= 2
    /\ ~\E t \in tasks : t.kind = "handle_vote"
    /\ Len(consensus_history) = 1

\* C13: a view the session is running in, once its entry has run to the
\* end and while it is not finalized, has its view-change timer pending,
\* whoever leads the view.
C13_RunningViewHasTimer ==
    (/\ status = "running"
     /\ consensus_finalized_view # current_view
     /\ ~\E t \in tasks : t.kind \in {"create_robot_nodes_and_start",
                                      "robot_send_pre_prepare"})
    => \E t \in tasks : /\ t.kind = "handle_consensus_timeout"
                        /\ t.view = current_view

\* C14: with maliciousProposer set, node 0 sends no PRE-PREPARE in view 0,
\* and round 1 is finalized in view 1 after one view change.
C14_StalledProposer ==
    config.maliciousProposer =>
        /\ \A i \in 1..Len(messages.pre_prepare) :
              messages.pre_prepare[i].view # 0
        /\ \A i \in 1..Len(consensus_history) :
              consensus_history[i].round = 1 =>
                  consensus_history[i].view = 1

\* C15: four honest robots, delivery 100: in view 0 there is at most one
\* PRE-PREPARE, from node 0; the QCs of view 0 are a prefix of prepare,
\* pre-commit, commit and the phase follows them; no NEW-VIEW is sent in
\* view 0; and view 0 ends finalized with "Consensus Success", one
\* PRE-PREPARE and three QCs.
C15_HonestRound ==
    LET honest == config.messageDeliveryRate = 100 /\ ~config.maliciousProposer
        pp0 == SelectSeq(messages.pre_prepare, LAMBDA m : m.view = 0)
        qc0 == SelectSeq(messages.qc, LAMBDA m : m.view = 0)
        order == <<"prepare", "pre-commit", "commit">>
        track == <<"prepare", "pre-commit", "commit", "completed">>
    IN  /\ [](honest =>
                /\ Len(pp0) <= 1
                /\ \A i \in 1..Len(pp0) : pp0[i].from = 0
                /\ Len(qc0) <= 3
                /\ \A i \in 1..Len(qc0) : qc0[i].qc.phase = order[i]
                /\ (current_view = 0 /\ phase \notin {"waiting", "new-view"})
                      => phase = track[Len(qc0) + 1]
                /\ current_view = 0 => messages.new_view = <<>>)
        /\ (honest /\ current_view = 0) ~>
                (/\ consensus_finalized_view = 0
                 /\ status = "completed"
                 /\ consensus_result = "Consensus Success"
                 /\ start_view_of_round = 0
                 /\ Len(pp0) = 1
                 /\ Len(qc0) = 3)

\* C15 witness: the honest session has finalized view 0 on its third QC.
C15_Witness ==
    /\ config.messageDeliveryRate = 100
    /\ ~config.maliciousProposer
    /\ current_view = 0
    /\ status = "completed"
    /\ consensus_result = "Consensus Success"
    /\ Len(messages.qc) = 3
    /\ messages.qc[3].qc.phase = "commit"

\* C16: when the honest session of four robots finalizes round 1 in view
\* 0, total_messages_sent is 8.
C16_EightMessages ==
    (/\ config.messageDeliveryRate = 100
     /\ ~config.maliciousProposer
     /\ current_round = 1
     /\ current_view = 0
     /\ status = "completed")
    => total_messages_sent = 8

C18_GroupOfThree ==
    LET gv == {i \in 1..Len(messages.vote) :
                  /\ messages.vote[i].is_group_vote
                  /\ messages.vote[i].from = 3
                  /\ messages.vote[i].view = 0}
    IN  /\ \A i \in gv : /\ messages.vote[i].weight = 3
                         /\ messages.vote[i].group_voters = {4, 5, 6}
        /\ \A i, j \in gv :
              (/\ messages.vote[i].phase = messages.vote[j].phase
               /\ messages.vote[i].value = messages.vote[j].value) => i = j
        /\ messages.qc = <<>>

\* C19: the vote log holds at most one GroupVote for every key (view,
\* phase, value, group leader).
C19_OneGroupVotePerKey ==
    \A i, j \in 1..Len(messages.vote) :
        (/\ messages.vote[i].is_group_vote
         /\ messages.vote[j].is_group_vote
         /\ messages.vote[i].view = messages.vote[j].view
         /\ messages.vote[i].phase = messages.vote[j].phase
         /\ messages.vote[i].value = messages.vote[j].value
         /\ messages.vote[i].from = messages.vote[j].from) => i = j

C21_ViewGrowsByOne ==
    /\ [](current_view >= start_view_of_round)
    /\ [][current_view' # current_view =>
              current_view' = current_view + 1]_vars

\* C21 witness: a view change took the session of round 1 from view 0,
\* where the round started, to view 1.
C21_Witness ==
    /\ current_view = 1
    /\ current_round = 1
    /\ start_view_of_round = 0
    /\ Len(messages.new_view) = config.nodeCount

C23_OnePrePreparePerView ==
    /\ \A i, j \in 1..Len(messages.pre_prepare) :
          messages.pre_prepare[i].view = messages.pre_prepare[j].view => i = j
    /\ \A i \in 1..Len(messages.pre_prepare) :
          messages.pre_prepare[i].from
              = messages.pre_prepare[i].view % config.nodeCount
    /\ last_pre_prepare_view = current_view =>
          \A q \in {NoQC} \cup {messages.qc[i].qc : i \in 1..Len(messages.qc)},
             ctx \in {"tail", "view_change"} :
              LET r == robot_send_pre_prepare(S, q, ctx)
              IN  /\ r.messages = messages
                  /\ r.total_messages_sent = total_messages_sent
                  /\ r = S

\* C23 witness: after the PRE-PREPARE of view 0 and its wake, the last
\* node connected and start_consensus attempted the PRE-PREPARE again: the
\* phase is back at new-view and the log still holds one PRE-PREPARE.
C23_Witness ==
    /\ current_view = 0
    /\ last_pre_prepare_view = 0
    /\ phase = "new-view"
    /\ Len(connected_nodes) >= config.nodeCount
    /\ room
    /\ Len(messages.pre_prepare) = 1
    /\ timeout_task = 0
    /\ ~\E t \in tasks : t.kind = "robot_send_pre_prepare"

\* C24: total_messages_sent of the running or completed round equals the
\* number of logical unicasts scheduled in it: one per vote of a node
\* logged on its way to the node's parent in prepare, pre-commit and commit
\* (the GroupVotes a group leader derives from them left aside), one per
\* hierarchical-broadcast target of each PRE-PREPARE and each QC, and one
\* per NEW-VIEW sent to another node.
C24_CounterIsScheduledUnicasts ==
    LET InRound(m) == m.round = current_round
        Targets(m) ==
            LET gls == group_leaders(config, m.from)
            IN  Cardinality(gls) + SumOver(config, gls, m.view, 0)
        RECURSIVE SumTargets(_)
        SumTargets(log) ==
            IF log = <<>> THEN 0
            ELSE (IF InRound(Head(log)) THEN Targets(Head(log)) ELSE 0)
                 + SumTargets(Tail(log))
        votes == {i \in 1..Len(messages.vote) :
                     /\ InRound(messages.vote[i])
                     /\ messages.vote[i].phase \in VotePhases
                     /\ ~messages.vote[i].is_group_vote
                     /\ messages.vote[i].from # messages.vote[i].to}
        new_views == {i \in 1..Len(messages.new_view) :
                         /\ InRound(messages.new_view[i])
                         /\ messages.new_view[i].from
                                # messages.new_view[i].to}
    IN  status \in {"running", "completed"} =>
            total_messages_sent
                = Cardinality(votes) + SumTargets(messages.pre_prepare)
                  + SumTargets(messages.qc) + Cardinality(new_views)

C27_FieldsInRange ==
    /\ phase \in {"waiting", "new-view", "prepare", "pre-commit", "commit",
                  "decide", "completed"}
    /\ phase_step \in 0..4
    /\ status \in {"waiting", "running", "completed", "stopped"}

\* C28: a restart at any moment loads every session of the sessions table;
\* the session saved with status running comes back with status waiting,
\* phase waiting and phase_step 0, a session saved with another status
\* keeps its status, phase and phase_step; and the restored history is the
\* sequence of the records of the completed rounds, as they were appended
\* and in that order.
C28_RestartRestoresPersisted ==
    LET persisted_sessions == load_all_sessions(db)
        state == db.sessions[SessionId]
        r == on_startup(S)
    IN  /\ DOMAIN persisted_sessions = DOMAIN db.sessions
        /\ SessionId \in DOMAIN persisted_sessions
        /\ state.status = "running" =>
                /\ r.status = "waiting"
                /\ r.phase = "waiting"
                /\ r.phase_step = 0
        /\ state.status # "running" =>
                /\ r.status = state.status
                /\ r.phase = state.phase
                /\ r.phase_step = state.phase_step
        /\ r.consensus_history = consensus_history
        /\ Len(r.consensus_history) = Len(db.history)
        /\ \A i \in 1..Len(db.history) :
                /\ db.history[i].id = i
                /\ r.consensus_history[i] = db.history[i].data

\* Restarted in the third round, saved as running: the session waits, with
\* the records of rounds 1 and 2.
C28_Witness ==
    /\ tasks = {}
    /\ db.sessions[SessionId].status = "running"
    /\ status = "waiting"
    /\ phase = "waiting"
    /\ phase_step = 0
    /\ current_round = 3
    /\ Len(consensus_history) = 2
    /\ consensus_history[1].round = 1
    /\ consensus_history[2].round = 2

\* C29: handle_vote on a vote of the current view whose target is not the
\* voter's group leader (a member's vote) or not the Global Leader of the
\* view (the vote or GroupVote of a group leader or of the root) returns
\* with the session as it was: the voter sets of the groups, the weight
\* tallies, phase, phase_step, the QC log and the node states included.
C29_MistargetedVoteDropped ==
    \A from \in 0..(config.nodeCount - 1), to \in 0..(config.nodeCount - 1),
       value \in Values, ph \in VotePhases, group \in BOOLEAN,
       y \in Yields, rnd \in Draws :
        LET voter_info == get_topology_info(config, from, current_view)
            expected == IF voter_info.role = "member"
                        THEN voter_info.parent_id
                        ELSE get_current_leader(config, current_view)
            m == IF group
                 THEN GroupVoteMsg(from, to, value, ph, current_view,
                                   current_round, {from})
                 ELSE VoteMsg(from, to, value, ph, current_view,
                              current_round)
            s == Drawn(S, rnd)
            r == handle_vote(s, m, y)
        IN  to # expected =>
                /\ r.pending_group_votes = pending_group_votes
                /\ r.pending_votes = pending_votes
                /\ r.phase = phase
                /\ r.phase_step = phase_step
                /\ r.messages.qc = messages.qc
                /\ r.node_states = node_states
                /\ r.robot_node_states = robot_node_states
                /\ r = s

\* A vote of the running view has been handled and no pool has an entry:
\* its target was not the one the topology gives its voter.
C29_Witness ==
    /\ status = "running"
    /\ inbound >= 1
    /\ vote_probe = current_view
    /\ pending_group_votes = <<>>
    /\ pending_votes = <<>>
    /\ message_buffer = <<>>

\* C30: handle_proposal_message on a PRE-PREPARE, for every receiving node,
\* sender, view, value and justify QC: a proposal of a higher view is
\* appended to the receiver's own buffer, message_buffer[node_id][view], and
\* nothing else changes; a proposal of a lower view, of a sender that is not
\* the Leader of its view, or that fails SafeNode leaves the session as it
\* was (no vote, no pool, phase or node state changes); a proposal that
\* passes makes a robot replica log its prepare vote for the Leader's tree,
\* and leaves the vote to the client of a human replica.
C30_ProposalChecks ==
    \A node_id \in 0..(config.nodeCount - 1),
       from \in 0..(config.nodeCount - 1), view \in 0..MaxView,
       value \in Values, y \in Yields, rnd \in Draws,
       qc \in {NoQC} \cup {node_states[n].prepareQC : n \in DOMAIN node_states} :
        LET proposal_msg == PrePrepareMsg(from, value, view, current_round, qc)
            s == Drawn(S, rnd)
            r == handle_proposal_message(s, proposal_msg, node_id, y)
            leader == get_current_leader(config, view)
            safe == check_safe_node(s, node_id, view, value, qc)
            parent == get_topology_info(config, node_id, view).parent_id
        IN  /\ view > current_view =>
                /\ ~r.exc
                /\ node_id \in DOMAIN r.message_buffer
                /\ r.message_buffer[node_id].kind = "node"
                /\ view \in DOMAIN r.message_buffer[node_id].node
                /\ LET buffered == r.message_buffer[node_id].node[view]
                   IN  buffered # <<>> /\ buffered[Len(buffered)] = proposal_msg
                /\ \A k \in DOMAIN message_buffer \ {node_id} :
                        /\ k \in DOMAIN r.message_buffer
                        /\ r.message_buffer[k] = message_buffer[k]
                /\ node_id \in DOMAIN message_buffer =>
                        r.message_buffer[node_id].votes
                            = message_buffer[node_id].votes
                /\ [r EXCEPT !.message_buffer = message_buffer] = s
            /\ view < current_view => r = s
            /\ view = current_view /\ from # leader => r = s
            /\ view = current_view /\ from = leader /\ ~safe => r = s
            /\ view = current_view /\ from = leader /\ safe =>
                IF InSeq(node_id, robot_nodes) /\ node_id # leader
                THEN /\ Len(r.messages.vote) > Len(messages.vote)
                     /\ r.messages.vote[Len(messages.vote) + 1]
                            = VoteMsg(node_id, parent, value, "prepare",
                                      current_view, current_round)
                ELSE r = s

\* C31: the votes buffered for a view and the proposals buffered for a node
\* are kept apart.  For every number n that is both a node id and a view
\* above the current one: a proposal buffered for node n leaves the votes
\* buffered for view n as they were and does not fail, and a vote buffered
\* for view n after a proposal was buffered for node n leaves that node's
\* proposals as they were and does not fail.
C31_BuffersIndependent ==
    \A n \in (current_view + 1)..MaxView, value \in Values :
        LET proposal_msg == PrePrepareMsg(get_current_leader(config, n), value,
                                          n, current_round, NoQC)
            vote_message == VoteMsg(3, get_topology_info(config, 3, n).parent_id,
                                    value, "prepare", n, current_round)
            s1 == handle_proposal_message(S, proposal_msg, n, FALSE)
            s2 == handle_vote(s1, vote_message, FALSE)
        IN  /\ ~s1.exc
            /\ n \in DOMAIN message_buffer =>
                    s1.message_buffer[n].votes = message_buffer[n].votes
            /\ ~s2.exc
            /\ s2.message_buffer[n].node = s1.message_buffer[n].node
            /\ s2.message_buffer[n].votes
                    = Append(s1.message_buffer[n].votes, vote_message)

C33_RobotVotesOnlyAccepted ==
    \A i \in DOMAIN messages.vote :
        LET m == messages.vote[i]
        IN  (/\ ~m.is_group_vote
             /\ InSeq(m.from, robot_nodes)
             /\ m.phase \in {"pre-commit", "commit"}) =>
                /\ \E p \in DOMAIN messages.pre_prepare :
                        messages.pre_prepare[p].view = m.view
                /\ \E j \in 1..(i - 1) :
                        /\ messages.vote[j].from = m.from
                        /\ messages.vote[j].view = m.view
                        /\ messages.vote[j].phase = "prepare"
                        /\ ~messages.vote[j].is_group_vote

C36_ServiceMatchesDriver ==
    inbound > 0 => Tallies(vote_probe) = Tallies(S)

\* C37: on every node and in every state, a lockedQC that is set comes with
\* a prepareQC that is set and of a view at least as large, and its view is
\* at most current_view.
C37_LockedBelowPrepare ==
    \A n \in DOMAIN node_states :
        node_states[n].lockedQC # NoQC =>
            /\ node_states[n].prepareQC # NoQC
            /\ node_states[n].lockedQC.view <= node_states[n].prepareQC.view
            /\ node_states[n].lockedQC.view <= current_view

\* A node locked on the commit QC of view 0 holds the prepare QC of view 1.
C37_Witness ==
    \E n \in DOMAIN node_states :
        /\ node_states[n].lockedQC # NoQC
        /\ node_states[n].lockedQC.phase = "commit"
        /\ node_states[n].lockedQC.view = 0
        /\ node_states[n].prepareQC # NoQC
        /\ node_states[n].prepareQC.view = 1
        /\ current_view = 1

\* C38: in every state all nodes hold the same lockedQC, prepareQC and
\* highQC; and a step that changes node_states is the application of one
\* QC of the log to every node 0..N-1.
C38_NodesAgree ==
    /\ [](\A n, k \in DOMAIN node_states : node_states[n] = node_states[k])
    /\ [][node_states' # node_states =>
            \E i \in 1..Len(messages'.qc) :
                node_states' =
                    apply_qc_to_nodes(S, messages'.qc[i], 0).node_states]_vars

\* All four nodes are locked on the commit QC of view 0 while a handler of
\* the session sleeps.
C38_Witness ==
    /\ DOMAIN node_states = 0..3
    /\ \A n \in DOMAIN node_states :
        /\ node_states[n].lockedQC # NoQC
        /\ node_states[n].lockedQC.phase = "commit"
        /\ node_states[n].prepareQC # NoQC
        /\ node_states[n].prepareQC.phase = "prepare"
    /\ tasks # {}

\* C39: the log holds at most one commit QC per view, whatever the values.
C39_OneCommitQCPerView ==
    \A i, j \in 1..Len(messages.qc) :
        (/\ messages.qc[i].qc.phase = "commit"
         /\ messages.qc[j].qc.phase = "commit"
         /\ messages.qc[i].qc.view = messages.qc[j].qc.view) => i = j

\* C40: for every record of consensus_history the QC log holds a commit QC
\* of the record's view and round, and no two records have the same round.
C40_HistoryHasCommitQC ==
    /\ \A h \in 1..Len(consensus_history) :
          \E i \in 1..Len(messages.qc) :
              /\ messages.qc[i].qc.phase = "commit"
              /\ messages.qc[i].view = consensus_history[h].view
              /\ messages.qc[i].round = consensus_history[h].round
    /\ \A h, k \in 1..Len(consensus_history) :
          consensus_history[h].round = consensus_history[k].round => h = k

====
